---------------------------- MODULE Spec2Model ----------------------------
(***************************************************************************)
(* Model of the iterative DNS lookup client ("DNS Lookup/mydns.py"):       *)
(* the DNSQuery wire codec (build_query, parse_response and the name       *)
(* helpers), query_dns_server, display_response, get_next_server and the   *)
(* iterative_dns_lookup loop; of the interactive FTP clients (FTPClient,   *)
(* SimpleFTP and myftp_justin.py) on their control and data connections;   *)
(* and of the CryptoServer ("3_Cryptography/server.py") and its client     *)
(* threads.  Each part has its own variables and specification; the        *)
(* variables of the other parts stay as they start.                        *)
(*                                                                         *)
(* Conventions.  A Python bytes object or str is a sequence of byte        *)
(* values 0..255 (TLA+ sequences are 1-based, the code's offsets are       *)
(* 0-based: byte `data[offset]` is data[offset + 1] here).  A Python dict  *)
(* is a record; an optional key ('ip', 'nameserver') is a field that is    *)
(* present or absent in the record's DOMAIN.  A call that can raise        *)
(* returns a record whose field `kind` is "ok", "raise" (a Python          *)
(* exception) or "loop" (the while loop never ends).                       *)
(***************************************************************************)
EXTENDS Integers, Sequences, FiniteSets, TLC

VARIABLES
    pc,              \* position of iterative_dns_lookup (see PcValues)
    current_server,  \* iterative_dns_lookup: current_server (a str)
    response,        \* iterative_dns_lookup: response of the last query, or None
    queried,         \* servers a datagram was sent to, in order (sendto calls)
    replies,         \* what each exchange brought: a datagram key, "timeout", "ioerror"
    printed,         \* the record lines the last display_response printed
    failure,         \* which error message was printed before returning False
    open_socks,      \* UDP sockets created and not closed
    visited,         \* the servers of the passes of the loop begun so far (line 329)
    sent,            \* the datagrams sendto has sent: address and pass of the loop
    domain,          \* DNSQuery.domain
    transaction_id,  \* DNSQuery.transaction_id
    packet,          \* result of build_query
    decoded,         \* result of _parse_domain_name(packet, 12)
    cpc,             \* position of the codec exercise (SpecCodec)
    buffer,          \* a received buffer (the `data` of the parsing methods)
    start,           \* the offset a name is read from
    parsed_name,     \* result of _parse_domain_name(buffer, start)
    skipped,         \* result of _skip_domain_name(buffer, start)
    parsed_message,  \* result of parse_response(buffer)
    bpc,             \* position of the decoding exercise (SpecDecode)
    calls,           \* the parse_response and build_query calls made so far on
                     \* the one DNSQuery object, each with its result
    other,           \* the locals of a second call of iterative_dns_lookup,
                     \* suspended while the first one runs (SpecPair)
    running,         \* which of the two calls is the one running: 1 or 2
    spc,             \* parse_response run loop iteration by loop iteration
                     \* (SpecSteps): the loop whose head comes next
    soffset,         \* the offset local of the innermost method running
    sleft,           \* iterations left of the for loop running (range(count))
    ssection,        \* the section read: 0 questions, 1 answers,
                     \* 2 authorities, 3 additionals
    sheader,         \* the six fields unpacked from the header
    nameframe,       \* the locals of the _parse_domain_name call running and
                     \* what its caller holds
    lists,           \* the answers, authorities and additionals lists
    fpc,             \* where an FTP client is: "prompt", "read" (waiting for
                     \* a reply), "transfer" (the data loop), "ended", "died"
    variant,         \* which FTP client runs: "FTPClient", "SimpleFTP", "justin"
    verb,            \* the user command being carried out
    cont,            \* which reply is being read: after "cd", "quit", "pasv",
                     \* "start" (the reply to RETR or LIST) or "final"
    ctrl,            \* what the server has sent on the control connection
                     \* and the client has not read yet
    server_open,     \* the server has not closed the control connection
    acc,             \* receive_response: response, the text read so far
    lastlen,         \* len(data) of the last recv or readline of the read
                     \* running, -1 before the first
    data_socket,     \* the data socket of the command: "none", "open", "closed"
    ncmd,            \* FTP commands sent so far
    nuser,           \* lines the user has typed so far
    owed,            \* the command whose completion reply the server has
                     \* still to send, or 0
    consumed,        \* <<k, j>>: a reply to command j was read while command
                     \* k was the last one sent
    returned,        \* <<k, j>>: the call that sent command k returned a reply
                     \* to command j (0: no reply text)
    sessions,        \* CryptoServer: the handle_client calls, one per
                     \* connection accepted, each with its locals
    client_public_keys  \* CryptoServer.client_public_keys (a dict)

vars == <<pc, current_server, response, queried, replies, printed, failure,
          open_socks, visited, sent, domain, transaction_id, packet, decoded, cpc,
          buffer, start, parsed_name, skipped, parsed_message, bpc, calls,
          other, running,
          spc, soffset, sleft, ssection, sheader, nameframe, lists,
          fpc, variant, verb, cont, ctrl, server_open, acc, lastlen,
          data_socket, ncmd, nuser, owed, consumed, returned,
          sessions, client_public_keys>>

engine_vars == <<pc, current_server, response, queried, replies, printed,
                 failure, open_socks, visited, sent>>

codec_vars == <<domain, transaction_id, packet, decoded, cpc>>

decode_vars == <<buffer, start, parsed_name, skipped, parsed_message, bpc, calls>>

pair_vars == <<other, running>>

step_vars == <<spc, soffset, sleft, ssection, sheader, nameframe, lists>>

ftp_vars == <<fpc, variant, verb, cont, ctrl, server_open, acc, lastlen,
              data_socket, ncmd, nuser, owed, consumed, returned>>

crypto_vars == <<sessions, client_public_keys>>

\* the variables of the parts of the model apart from the one an action
\* belongs to
apart_vars == <<step_vars, ftp_vars, crypto_vars>>

None == [kind |-> "None"]

(***************************************************************************)
(* Bytes, slices, struct.pack / struct.unpack                              *)
(***************************************************************************)
Min(a, b) == IF a <= b THEN a ELSE b

\* data[a:b] for 0 <= a: Python clamps the slice to the buffer, it never raises
Slice(data, a, b) ==
    IF a >= Min(b, Len(data)) THEN <<>>
    ELSE [i \in 1..(Min(b, Len(data)) - a) |-> data[a + i]]

\* struct.pack('!B', n): struct.error outside 0..255
PackB(n) == IF n \in 0..255 THEN [kind |-> "ok", bytes |-> <<n>>]
            ELSE [kind |-> "raise", exc |-> "struct.error"]

\* struct.pack('!H', n), big-endian
PackH(n) == <<(n \div 256) % 256, n % 256>>

\* struct.unpack('!H', b) of exactly two bytes
UnpackH(b) == b[1] * 256 + b[2]

\* struct.unpack('!I', b) of exactly four bytes
UnpackI(b) == ((b[1] * 256 + b[2]) * 256 + b[3]) * 256 + b[4]

RECURSIVE Dec(_)
\* str(n) for n >= 0, as ASCII digits
Dec(n) == IF n < 10 THEN <<48 + n>> ELSE Dec(n \div 10) \o <<48 + (n % 10)>>

\* inet_ntoa with the four bytes taken in the opposite order
inet_ntoa_reversed(b) ==
    IF Len(b) # 4 THEN [kind |-> "raise", exc |-> "OSError"]
    ELSE [kind |-> "ok",
          ip |-> Dec(b[4]) \o <<46>> \o Dec(b[3]) \o <<46>> \o Dec(b[2]) \o <<46>> \o Dec(b[1])]

\* socket.inet_ntoa(b): the dotted-quad string; OSError unless len(b) = 4
inet_ntoa(b) ==
    IF Len(b) # 4 THEN [kind |-> "raise", exc |-> "OSError"]
    ELSE [kind |-> "ok",
          ip |-> Dec(b[1]) \o <<46>> \o Dec(b[2]) \o <<46>> \o Dec(b[3]) \o <<46>> \o Dec(b[4])]

\* str.split('.'): the pieces between the dots (46), empty pieces included;
\* a string with n dots gives n + 1 pieces
Split(s) ==
    LET dots == {i \in 1..Len(s) : s[i] = 46}
        dot(k) == CHOOSE i \in dots : Cardinality({j \in dots : j < i}) = k - 1
        first(k) == IF k = 1 THEN 1 ELSE dot(k - 1) + 1
        last(k) == IF k = Cardinality(dots) + 1 THEN Len(s) ELSE dot(k) - 1
    IN  [k \in 1..(Cardinality(dots) + 1) |->
            IF first(k) > last(k) THEN <<>> ELSE SubSeq(s, first(k), last(k))]

RECURSIVE Join(_)
\* '.'.join(labels)
Join(labels) ==
    IF labels = <<>> THEN <<>>
    ELSE IF Len(labels) = 1 THEN labels[1]
    ELSE labels[1] \o <<46>> \o Join(Tail(labels))

\* decode(...).lower(): upper-case ASCII letters become lower-case
DecodeAsciiIgnore_lower(b) ==
    [i \in 1..Len(SelectSeq(b, LAMBDA x : x < 128)) |->
        LET c == SelectSeq(b, LAMBDA x : x < 128)[i]
        IN  IF c \in 65..90 THEN c + 32 ELSE c]

\* bytes.decode('ascii', errors='ignore'): bytes >= 128 are dropped
DecodeAsciiIgnore(b) == SelectSeq(b, LAMBDA x : x < 128)

\* str.encode('ascii'): UnicodeEncodeError on a character >= 128
EncodeAscii(s) ==
    IF \E i \in 1..Len(s) : s[i] >= 128
    THEN [kind |-> "raise", exc |-> "UnicodeEncodeError"]
    ELSE [kind |-> "ok", bytes |-> s]

\* (length & 0xC0) == 0xC0 for a byte value
IsPointer(length) == length >= 192

(***************************************************************************)
(* DNSQuery: building the query                                            *)
(***************************************************************************)
RECURSIVE EncodeLabels(_, _)
\* the for loop of _encode_domain_name over the labels still to do
EncodeLabels(labels, encoded) ==
    IF labels = <<>> THEN [kind |-> "ok", bytes |-> encoded \o <<0>>]
    ELSE LET label == Head(labels)
             lb == PackB(Len(label))
             eb == EncodeAscii(label)
         IN  IF lb.kind = "raise" THEN lb
             ELSE IF eb.kind = "raise" THEN eb
             ELSE EncodeLabels(Tail(labels), encoded \o lb.bytes \o eb.bytes)

encode_domain_name(dom) == EncodeLabels(Split(dom), <<>>)

\* the query with the recursion-desired bit set in the flags (0x0100)
build_query_rd(dom, tid) ==
    LET question == encode_domain_name(dom)
    IN  IF question.kind = "raise" THEN question
        ELSE [kind |-> "ok",
              bytes |-> PackH(tid) \o PackH(256) \o PackH(1) \o PackH(0) \o PackH(0)
                        \o PackH(0) \o question.bytes \o PackH(1) \o PackH(1)]

\* header '!HHHHHH' (id, flags 0x0000, 1 question, 0, 0, 0), the encoded name,
\* then qtype 1 and qclass 1
build_query(dom, tid) ==
    LET question == encode_domain_name(dom)
    IN  IF question.kind = "raise" THEN question
        ELSE [kind |-> "ok",
              bytes |-> PackH(tid) \o PackH(0) \o PackH(1) \o PackH(0) \o PackH(0)
                        \o PackH(0) \o question.bytes \o PackH(1) \o PackH(1)]

(***************************************************************************)
(* DNSQuery: parsing the response                                          *)
(***************************************************************************)
RECURSIVE skip_domain_name_onebyte(_, _)
\* a pointer skipped as one byte
skip_domain_name_onebyte(data, offset) ==
    IF offset >= Len(data) THEN [kind |-> "raise", exc |-> "IndexError"]
    ELSE LET length == data[offset + 1]
         IN  IF length = 0 THEN [kind |-> "ok", offset |-> offset + 1]
             ELSE IF IsPointer(length) THEN [kind |-> "ok", offset |-> offset + 1]
             ELSE skip_domain_name_onebyte(data, offset + length + 1)

RECURSIVE skip_domain_name_nomarker(_, _)
\* a pointer marker taken for the length of a label
skip_domain_name_nomarker(data, offset) ==
    IF offset >= Len(data) THEN [kind |-> "raise", exc |-> "IndexError"]
    ELSE LET length == data[offset + 1]
         IN  IF length = 0 THEN [kind |-> "ok", offset |-> offset + 1]
             ELSE skip_domain_name_nomarker(data, offset + length + 1)

RECURSIVE skip_domain_name(_, _)
skip_domain_name(data, offset) ==
    IF offset >= Len(data) THEN [kind |-> "raise", exc |-> "IndexError"]
    ELSE LET length == data[offset + 1]
         IN  IF length = 0 THEN [kind |-> "ok", offset |-> offset + 1]
             ELSE IF IsPointer(length) THEN [kind |-> "ok", offset |-> offset + 2]
             ELSE skip_domain_name(data, offset + length + 1)

RECURSIVE skip_question_section(_, _, _)
skip_question_section(data, offset, count) ==
    IF count = 0 THEN [kind |-> "ok", offset |-> offset]
    ELSE LET s == skip_domain_name(data, offset)
         IN  IF s.kind # "ok" THEN s
             ELSE skip_question_section(data, s.offset + 4, count - 1)

\* the jump target taken from the two bytes as they are, marker bits included
PointerTarget_unmasked(data, offset) == UnpackH(Slice(data, offset, offset + 2))

\* the jump target taken from the second byte of the pointer alone
PointerTarget_lowbyte(data, offset) == UnpackH(Slice(data, offset, offset + 2)) % 256

\* lines 170-171: pointer = unpack('!H', data[offset:offset+2])[0], then
\* pointer &= 0x3FFF
PointerTarget(data, offset) == UnpackH(Slice(data, offset, offset + 2)) % 16384

RECURSIVE ParseNameLoop_lastpointer(_, _, _, _, _, _)
\* the loop with original_offset set at every pointer, not only the first
ParseNameLoop_lastpointer(data, offset, labels, jumped, original_offset, seen) ==
    IF offset >= Len(data) THEN [kind |-> "raise", exc |-> "IndexError"]
    ELSE IF offset \in seen THEN [kind |-> "loop"]
    ELSE LET length == data[offset + 1]
         IN  IF length = 0
             THEN [kind |-> "ok", name |-> Join(labels),
                   offset |-> IF jumped THEN original_offset ELSE offset + 1]
             ELSE IF IsPointer(length)
             THEN IF Len(Slice(data, offset, offset + 2)) # 2
                  THEN [kind |-> "raise", exc |-> "struct.error"]
                  ELSE ParseNameLoop_lastpointer(data, PointerTarget(data, offset),
                           labels, TRUE, offset + 2, seen \cup {offset})
             ELSE ParseNameLoop_lastpointer(data, offset + 1 + length,
                      Append(labels,
                             DecodeAsciiIgnore(Slice(data, offset + 1, offset + 1 + length))),
                      jumped, original_offset, seen \cup {offset})

RECURSIVE ParseNameLoop(_, _, _, _, _, _)
\* The while loop of _parse_domain_name.  The loop's control depends on the
\* offset alone, so reading a length byte at an offset already read from
\* (seen) means the loop repeats forever (a cycle of pointers alone changes
\* nothing else; a cycle through literal labels also appends to `labels` on
\* every round, for as long as memory lasts).
ParseNameLoop(data, offset, labels, jumped, original_offset, seen) ==
    IF offset >= Len(data) THEN [kind |-> "raise", exc |-> "IndexError"]
    ELSE IF offset \in seen THEN [kind |-> "loop"]
    ELSE LET length == data[offset + 1]
         IN  IF length = 0
             THEN [kind |-> "ok", name |-> Join(labels),
                   offset |-> IF jumped THEN original_offset ELSE offset + 1]
             ELSE IF IsPointer(length)
             THEN IF Len(Slice(data, offset, offset + 2)) # 2
                  THEN [kind |-> "raise", exc |-> "struct.error"]
                  ELSE ParseNameLoop(data, PointerTarget(data, offset),
                           labels, TRUE,
                           IF jumped THEN original_offset ELSE offset + 2,
                           seen \cup {offset})
             ELSE ParseNameLoop(data, offset + 1 + length,
                      Append(labels,
                             DecodeAsciiIgnore(Slice(data, offset + 1, offset + 1 + length))),
                      jumped, original_offset, seen \cup {offset})

parse_domain_name(data, offset) == ParseNameLoop(data, offset, <<>>, FALSE, offset, {})

\* `LET x == v IN F(x)` with v computed once, whatever the evaluation
\* strategy: x is bound to the value of v
Bind(v, F(_)) == CHOOSE y \in {F(x) : x \in {v}} : TRUE

\* the rdata of CNAME records (type 5) read as a name too
RecordAfterName_cname(data, n) ==
    LET offset == n.offset
        fields == Slice(data, offset, offset + 10)
    IN  IF Len(fields) # 10 THEN [kind |-> "raise", exc |-> "struct.error"]
        ELSE
        LET rr_type == UnpackH(SubSeq(fields, 1, 2))
            rr_class == UnpackH(SubSeq(fields, 3, 4))
            ttl == UnpackI(SubSeq(fields, 5, 8))
            rdlength == UnpackH(SubSeq(fields, 9, 10))
            rdata_start == offset + 10
            rdata_end == rdata_start + rdlength
            record == [name |-> n.name, type |-> rr_type, class |-> rr_class,
                       ttl |-> ttl, rdlength |-> rdlength]
        IN  IF rr_type = 1 /\ rdlength = 4
            THEN LET a == inet_ntoa(Slice(data, rdata_start, rdata_end))
                 IN  IF a.kind # "ok" THEN a
                     ELSE [kind |-> "ok", offset |-> rdata_end,
                           record |-> [name |-> n.name, type |-> rr_type,
                                       class |-> rr_class, ttl |-> ttl,
                                       rdlength |-> rdlength, ip |-> a.ip]]
            ELSE IF rr_type \in {2, 5}
            THEN Bind(parse_domain_name(data, rdata_start),
                      LAMBDA ns :
                        IF ns.kind # "ok" THEN ns
                        ELSE [kind |-> "ok", offset |-> rdata_end,
                              record |-> [name |-> n.name, type |-> rr_type,
                                          class |-> rr_class, ttl |-> ttl,
                                          rdlength |-> rdlength,
                                          nameserver |-> ns.name]])
            ELSE [kind |-> "ok", offset |-> rdata_end, record |-> record]

\* the next record read where the name inside the NS rdata ended
RecordAfterName_nsend(data, n) ==
    LET offset == n.offset
        fields == Slice(data, offset, offset + 10)
    IN  IF Len(fields) # 10 THEN [kind |-> "raise", exc |-> "struct.error"]
        ELSE
        LET rr_type == UnpackH(SubSeq(fields, 1, 2))
            rr_class == UnpackH(SubSeq(fields, 3, 4))
            ttl == UnpackI(SubSeq(fields, 5, 8))
            rdlength == UnpackH(SubSeq(fields, 9, 10))
            rdata_start == offset + 10
            rdata_end == rdata_start + rdlength
            record == [name |-> n.name, type |-> rr_type, class |-> rr_class,
                       ttl |-> ttl, rdlength |-> rdlength]
        IN  IF rr_type = 1 /\ rdlength = 4
            THEN LET a == inet_ntoa(Slice(data, rdata_start, rdata_end))
                 IN  IF a.kind # "ok" THEN a
                     ELSE [kind |-> "ok", offset |-> rdata_end,
                           record |-> [name |-> n.name, type |-> rr_type,
                                       class |-> rr_class, ttl |-> ttl,
                                       rdlength |-> rdlength, ip |-> a.ip]]
            ELSE IF rr_type = 2
            THEN Bind(parse_domain_name(data, rdata_start),
                      LAMBDA ns :
                        IF ns.kind # "ok" THEN ns
                        ELSE [kind |-> "ok", offset |-> ns.offset,
                              record |-> [name |-> n.name, type |-> rr_type,
                                          class |-> rr_class, ttl |-> ttl,
                                          rdlength |-> rdlength,
                                          nameserver |-> ns.name]])
            ELSE [kind |-> "ok", offset |-> rdata_end, record |-> record]

\* lines 194-219, with `n` what _parse_domain_name returned for the record's
\* name: the record, and the offset of the next one
RecordAfterName(data, n) ==
    LET offset == n.offset
        fields == Slice(data, offset, offset + 10)
    IN  IF Len(fields) # 10 THEN [kind |-> "raise", exc |-> "struct.error"]
        ELSE
        LET rr_type == UnpackH(SubSeq(fields, 1, 2))
            rr_class == UnpackH(SubSeq(fields, 3, 4))
            ttl == UnpackI(SubSeq(fields, 5, 8))
            rdlength == UnpackH(SubSeq(fields, 9, 10))
            rdata_start == offset + 10
            rdata_end == rdata_start + rdlength
            record == [name |-> n.name, type |-> rr_type, class |-> rr_class,
                       ttl |-> ttl, rdlength |-> rdlength]
        IN  IF rr_type = 1 /\ rdlength = 4
            THEN LET a == inet_ntoa(Slice(data, rdata_start, rdata_end))
                 IN  IF a.kind # "ok" THEN a
                     ELSE [kind |-> "ok", offset |-> rdata_end,
                           record |-> [name |-> n.name, type |-> rr_type,
                                       class |-> rr_class, ttl |-> ttl,
                                       rdlength |-> rdlength, ip |-> a.ip]]
            ELSE IF rr_type = 2
            THEN Bind(parse_domain_name(data, rdata_start),
                      LAMBDA ns :
                        IF ns.kind # "ok" THEN ns
                        ELSE [kind |-> "ok", offset |-> rdata_end,
                              record |-> [name |-> n.name, type |-> rr_type,
                                          class |-> rr_class, ttl |-> ttl,
                                          rdlength |-> rdlength,
                                          nameserver |-> ns.name]])
            ELSE [kind |-> "ok", offset |-> rdata_end, record |-> record]

\* One iteration of the for loop of _parse_resource_records (lines 190-219):
\* the record at offset, and the offset of the next one.
ParseRecord(data, offset) ==
    Bind(parse_domain_name(data, offset),
         LAMBDA n : IF n.kind # "ok" THEN n ELSE RecordAfterName(data, n))

RECURSIVE parse_resource_records(_, _, _, _)
\* `records` is the caller's list: it keeps what was appended when a later
\* record raises
parse_resource_records(data, offset, count, records) ==
    IF count = 0 THEN [kind |-> "ok", offset |-> offset, records |-> records]
    ELSE Bind(ParseRecord(data, offset),
              LAMBDA r :
                IF r.kind # "ok"
                THEN [kind |-> r.kind, offset |-> offset, records |-> records]
                ELSE parse_resource_records(data, r.offset, count - 1,
                                            Append(records, r.record)))

\* The lists as they stand when parse_response stops: kind "ok" is the
\* returned dict; with kind "raise" or "loop" they are the partly filled
\* locals, which no caller receives.
Parsed(kind, an, ns, ar, header) ==
    [kind |-> kind, answers |-> an, authorities |-> ns, additionals |-> ar,
     answer_count |-> header[4], authority_count |-> header[5],
     additional_count |-> header[6]]

\* the additional section read with the count of the authority section
ParseSections_nscount(data, header, q) ==
    Bind(parse_resource_records(data, q.offset, header[4], <<>>),
      LAMBDA an :
        IF an.kind # "ok" THEN Parsed(an.kind, an.records, <<>>, <<>>, header)
        ELSE
        Bind(parse_resource_records(data, an.offset, header[5], <<>>),
          LAMBDA ns :
            IF ns.kind # "ok"
            THEN Parsed(ns.kind, an.records, ns.records, <<>>, header)
            ELSE
            Bind(parse_resource_records(data, ns.offset, header[5], <<>>),
              LAMBDA ar :
                Parsed(ar.kind, an.records, ns.records, ar.records, header))))

\* lines 104-124, with `header` the six unpacked fields and `q` what
\* _skip_question_section returned
ParseSections(data, header, q) ==
    Bind(parse_resource_records(data, q.offset, header[4], <<>>),
      LAMBDA an :
        IF an.kind # "ok" THEN Parsed(an.kind, an.records, <<>>, <<>>, header)
        ELSE
        Bind(parse_resource_records(data, an.offset, header[5], <<>>),
          LAMBDA ns :
            IF ns.kind # "ok"
            THEN Parsed(ns.kind, an.records, ns.records, <<>>, header)
            ELSE
            Bind(parse_resource_records(data, ns.offset, header[6], <<>>),
              LAMBDA ar :
                Parsed(ar.kind, an.records, ns.records, ar.records, header))))

\* parse_response that refuses a response whose transaction id is not the
\* one of the query
parse_response_matching(data) ==
    IF Len(Slice(data, 0, 12)) # 12
    THEN Parsed("raise", <<>>, <<>>, <<>>, <<0, 0, 0, 0, 0, 0>>)
    ELSE
    LET header == [i \in 1..6 |-> UnpackH(SubSeq(data, 2 * i - 1, 2 * i))]
    IN  IF header[1] # transaction_id
        THEN Parsed("raise", <<>>, <<>>, <<>>, header)
        ELSE Bind(skip_question_section(data, 12, header[3]),
                  LAMBDA q :
                    IF q.kind # "ok" THEN Parsed(q.kind, <<>>, <<>>, <<>>, header)
                    ELSE ParseSections(data, header, q))

\* the answers list kept on the object: each call adds to what the call
\* before left
parse_response_keeping(data) ==
    IF Len(Slice(data, 0, 12)) # 12
    THEN Parsed("raise", <<>>, <<>>, <<>>, <<0, 0, 0, 0, 0, 0>>)
    ELSE
    LET header == [i \in 1..6 |-> UnpackH(SubSeq(data, 2 * i - 1, 2 * i))]
        kept == IF parsed_message = None THEN <<>> ELSE parsed_message.answers
    IN  Bind(skip_question_section(data, 12, header[3]),
             LAMBDA q :
               IF q.kind # "ok" THEN Parsed(q.kind, <<>>, <<>>, <<>>, header)
               ELSE Bind(ParseSections(data, header, q),
                         LAMBDA m : [m EXCEPT !.answers = kept \o @]))

parse_response(data) ==
    IF Len(Slice(data, 0, 12)) # 12
    THEN Parsed("raise", <<>>, <<>>, <<>>, <<0, 0, 0, 0, 0, 0>>)
    ELSE
    LET header == [i \in 1..6 |-> UnpackH(SubSeq(data, 2 * i - 1, 2 * i))]
    IN  Bind(skip_question_section(data, 12, header[3]),
             LAMBDA q :
               IF q.kind # "ok" THEN Parsed(q.kind, <<>>, <<>>, <<>>, header)
               ELSE ParseSections(data, header, q))

(***************************************************************************)
(* display_response and get_next_server                                    *)
(***************************************************************************)
HasKey(record, key) == key \in DOMAIN record

RECURSIVE DisplayRecords_tolerant(_, _, _)
\* the loops printing nothing for a record whose 'ip' or 'nameserver' is absent
DisplayRecords_tolerant(section, records, lines) ==
    IF records = <<>> THEN [kind |-> "ok", lines |-> lines]
    ELSE LET record == Head(records)
         IN  IF record.type = 1 /\ section \in {"answer", "additional"}
                /\ HasKey(record, "ip")
             THEN DisplayRecords_tolerant(section, Tail(records),
                      Append(lines, [section |-> section, name |-> record.name,
                                     value |-> record.ip]))
             ELSE IF record.type = 2 /\ section = "authority"
                     /\ HasKey(record, "nameserver")
             THEN DisplayRecords_tolerant(section, Tail(records),
                      Append(lines, [section |-> section, name |-> record.name,
                                     value |-> record.nameserver]))
             ELSE IF record.type = 2 /\ section = "additional"
             THEN DisplayRecords_tolerant(section, Tail(records),
                      Append(lines, [section |-> section, name |-> record.name,
                                     value |-> <<>>]))
             ELSE DisplayRecords_tolerant(section, Tail(records), lines)

RECURSIVE DisplayRecords(_, _, _)
\* One of the three for loops of display_response over `records`: the lines
\* printed, and KeyError when a key that is read is absent.  In the answers
\* section only A records are printed, in the authority section only NS
\* records; in the additional section A records with their 'ip' and NS
\* records by name alone.
DisplayRecords(section, records, lines) ==
    IF records = <<>> THEN [kind |-> "ok", lines |-> lines]
    ELSE LET record == Head(records)
         IN  IF record.type = 1 /\ section \in {"answer", "additional"}
             THEN IF ~HasKey(record, "ip")
                  THEN [kind |-> "raise", exc |-> "KeyError", lines |-> lines]
                  ELSE DisplayRecords(section, Tail(records),
                           Append(lines, [section |-> section, name |-> record.name,
                                          value |-> record.ip]))
             ELSE IF record.type = 2 /\ section = "authority"
             THEN IF ~HasKey(record, "nameserver")
                  THEN [kind |-> "raise", exc |-> "KeyError", lines |-> lines]
                  ELSE DisplayRecords(section, Tail(records),
                           Append(lines, [section |-> section, name |-> record.name,
                                          value |-> record.nameserver]))
             ELSE IF record.type = 2 /\ section = "additional"
             THEN DisplayRecords(section, Tail(records),
                      Append(lines, [section |-> section, name |-> record.name,
                                     value |-> <<>>]))
             ELSE DisplayRecords(section, Tail(records), lines)

display_response(resp) ==
    LET an == IF resp.answer_count = 0 THEN [kind |-> "ok", lines |-> <<>>]
              ELSE DisplayRecords("answer", resp.answers, <<>>)
    IN  IF an.kind # "ok" THEN an
        ELSE LET ns == DisplayRecords("authority", resp.authorities, an.lines)
             IN  IF ns.kind # "ok" THEN ns
                 ELSE DisplayRecords("additional", resp.additionals, ns.lines)

\* the records of a list with 'type' == t, in list order
OfType(records, t) == SelectSeq(records, LAMBDA r : r.type = t)

\* lines 301-304: the 'nameserver' of every NS record of the authority section
NsServers(resp) ==
    LET nss == OfType(resp.authorities, 2)
    IN  [i \in 1..Len(nss) |-> nss[i].nameserver]

\* s with its upper-case ASCII letters turned to lower case
LowerCase(s) == [i \in 1..Len(s) |-> IF s[i] \in 65..90 THEN s[i] + 32 ELSE s[i]]

RECURSIVE GlueFor_nocase(_, _)
\* the glue search comparing names without regard to letter case
GlueFor_nocase(ns_servers, additionals) ==
    IF ns_servers = <<>> THEN <<>>
    ELSE LET m == SelectSeq(additionals,
                            LAMBDA r : /\ r.type = 1
                                       /\ LowerCase(r.name) = LowerCase(Head(ns_servers)))
         IN  IF m # <<>> THEN <<m[1]>>
             ELSE GlueFor_nocase(Tail(ns_servers), additionals)

RECURSIVE GlueFor(_, _)
\* lines 307-310: for ns in ns_servers, for record in additionals, the first
\* A record named ns; <<>> when the loops end without a return
GlueFor(ns_servers, additionals) ==
    IF ns_servers = <<>> THEN <<>>
    ELSE LET m == SelectSeq(additionals,
                            LAMBDA r : r.type = 1 /\ r.name = Head(ns_servers))
         IN  IF m # <<>> THEN <<m[1]>>
             ELSE GlueFor(Tail(ns_servers), additionals)

\* return record['ip']
ReturnIp(record) ==
    IF HasKey(record, "ip") THEN [kind |-> "ip", ip |-> record.ip]
    ELSE [kind |-> "raise", exc |-> "KeyError"]

\* get_next_server that, finding no A record in additionals, returns the
\* server just queried, an address of an earlier response
get_next_server_stale(resp) ==
    IF OfType(resp.answers, 1) # <<>> THEN None
    ELSE LET glue == GlueFor(NsServers(resp), resp.additionals)
             anyA == OfType(resp.additionals, 1)
         IN  IF glue # <<>> THEN ReturnIp(glue[1])
             ELSE IF anyA # <<>> THEN ReturnIp(anyA[1])
             ELSE [kind |-> "ip", ip |-> current_server]

\* get_next_server that, finding no A record in additionals, returns the
\* name of the first NS record's server to be looked up next
get_next_server_nsname(resp) ==
    IF OfType(resp.answers, 1) # <<>> THEN None
    ELSE LET glue == GlueFor(NsServers(resp), resp.additionals)
             anyA == OfType(resp.additionals, 1)
         IN  IF glue # <<>> THEN ReturnIp(glue[1])
             ELSE IF anyA # <<>> THEN ReturnIp(anyA[1])
             ELSE IF NsServers(resp) # <<>>
             THEN [kind |-> "ip", ip |-> NsServers(resp)[1]]
             ELSE None

get_next_server(resp) ==
    IF OfType(resp.answers, 1) # <<>> THEN None
    ELSE LET glue == GlueFor(NsServers(resp), resp.additionals)
             anyA == OfType(resp.additionals, 1)
         IN  IF glue # <<>> THEN ReturnIp(glue[1])
             ELSE IF anyA # <<>> THEN ReturnIp(anyA[1])
             ELSE None

\* any record in the answer section taken for an answer
has_answer_any(resp) == resp.answers # <<>>

\* lines 343-347: has_answer
has_answer(resp) == \E i \in 1..Len(resp.answers) : resp.answers[i].type = 1


(***************************************************************************)
(* The strings of the scenarios, as ASCII                                  *)
(***************************************************************************)
\* "example.com"
example_com == <<101, 120, 97, 109, 112, 108, 101, 46, 99, 111, 109>>
\* "a.iana-servers.net"
a_iana_servers_net == <<97, 46, 105, 97, 110, 97, 45, 115, 101, 114, 118, 101, 114, 115, 46, 110, 101, 116>>
\* "ns1.example.com"
ns1_example_com == <<110, 115, 49, 46, 101, 120, 97, 109, 112, 108, 101, 46, 99, 111, 109>>
\* "ns2.example.com"
ns2_example_com == <<110, 115, 50, 46, 101, 120, 97, 109, 112, 108, 101, 46, 99, 111, 109>>
\* "NS1.EXAMPLE.COM"
NS1_EXAMPLE_COM == <<78, 83, 49, 46, 69, 88, 65, 77, 80, 76, 69, 46, 67, 79, 77>>
\* "glue.example.net"
glue_example_net == <<103, 108, 117, 101, 46, 101, 120, 97, 109, 112, 108, 101, 46, 110, 101, 116>>
\* "198.41.0.4"
root_dns_ip == <<49, 57, 56, 46, 52, 49, 46, 48, 46, 52>>
\* "199.43.135.53"
ip_199_43_135_53 == <<49, 57, 57, 46, 52, 51, 46, 49, 51, 53, 46, 53, 51>>
\* "93.184.216.34"
ip_93_184_216_34 == <<57, 51, 46, 49, 56, 52, 46, 50, 49, 54, 46, 51, 52>>
\* "8.8.8.8"
ip_8_8_8_8 == <<56, 46, 56, 46, 56, 46, 56>>
\* "9.9.9.9"
ip_9_9_9_9 == <<57, 46, 57, 46, 57, 46, 57>>

\* "ex" + U+00E4 + "mple.com": not ASCII, build_query raises for it
exaemple_com == <<101, 120, 228, 109, 112, 108, 101, 46, 99, 111, 109>>

(***************************************************************************)
(* The servers: the datagrams a server may answer with.  Each is written   *)
(* in wire format (RFC 1035), names as literal labels unless said.         *)
(***************************************************************************)
WireName(name) == encode_domain_name(name).bytes

WireRR(name, type, rdata) ==
    WireName(name) \o PackH(type) \o PackH(1) \o <<0, 0, 14, 16>>
    \o PackH(Len(rdata)) \o rdata

RECURSIVE Concat(_)
Concat(seqs) == IF seqs = <<>> THEN <<>> ELSE Head(seqs) \o Concat(Tail(seqs))

\* a response to the question "example.com A IN" (flags 0x8000)
WireMsg(an, ns, ar) ==
    PackH(4660) \o PackH(32768) \o PackH(1) \o PackH(Len(an)) \o PackH(Len(ns))
    \o PackH(Len(ar)) \o WireName(example_com) \o PackH(1) \o PackH(1)
    \o Concat(an) \o Concat(ns) \o Concat(ar)

A_rr(name, b) == WireRR(name, 1, b)
NS_rr(name, nsname) == WireRR(name, 2, WireName(nsname))
\* an A record whose rdata is an IPv6-sized 16 bytes
BadA_rr(name) == WireRR(name, 1, [i \in 1..16 |-> 0])
\* a CNAME record (type 5) and an AAAA record (type 28)
CNAME_rr(name, target) == WireRR(name, 5, WireName(target))
AAAA_rr(name) == WireRR(name, 28, [i \in 1..16 |-> 0])

\* "com" and "net", the zones of the referrals
com == <<99, 111, 109>>
net == <<110, 101, 116>>

\* an answer with every section populated
AnswerPopulated ==
    WireMsg(<<CNAME_rr(example_com, example_com),
            A_rr(example_com, <<93, 184, 216, 34>>),
            A_rr(example_com, <<9, 9, 9, 9>>)>>,
          <<NS_rr(com, ns1_example_com)>>,
          <<A_rr(ns1_example_com, <<8, 8, 8, 8>>)>>)

DatagramKeys ==
    {"referral_iana", "answer", "answer_populated", "precedence", "fallback",
     "case_glue", "no_glue", "only_aaaa", "self_referral", "cname_only",
     "cname_no_glue", "bad_a_answer", "answer_bad_additional", "bad_glue",
     "glue_then_bad", "fallback_then_bad", "case_then_exact",
     "compressed_referral", "ns_padded", "ns_empty_rdata", "ns_in_answers",
     "two_questions", "no_question",
     "pointer_loop", "cut_header", "cut_question", "cut_second_answer",
     "cut_additional", "empty"}

Datagram(k) ==
    CASE k = "referral_iana" ->
           WireMsg(<<>>, <<NS_rr(com, a_iana_servers_net)>>,
                   <<A_rr(a_iana_servers_net, <<199, 43, 135, 53>>)>>)
      [] k = "answer" ->
           WireMsg(<<A_rr(example_com, <<93, 184, 216, 34>>)>>, <<>>, <<>>)
      [] k = "answer_populated" -> AnswerPopulated
      [] k = "precedence" ->
           WireMsg(<<>>, <<NS_rr(com, ns1_example_com), NS_rr(com, ns2_example_com)>>,
                   <<A_rr(ns2_example_com, <<9, 9, 9, 9>>),
                     A_rr(ns1_example_com, <<8, 8, 8, 8>>)>>)
      [] k = "fallback" ->
           WireMsg(<<>>, <<NS_rr(com, ns1_example_com)>>,
                   <<AAAA_rr(ns1_example_com),
                     A_rr(glue_example_net, <<9, 9, 9, 9>>),
                     A_rr(ns2_example_com, <<8, 8, 8, 8>>)>>)
      [] k = "case_glue" ->
           WireMsg(<<>>, <<NS_rr(com, ns1_example_com)>>,
                   <<A_rr(glue_example_net, <<199, 43, 135, 53>>),
                     A_rr(NS1_EXAMPLE_COM, <<8, 8, 8, 8>>)>>)
      [] k = "case_then_exact" ->
           WireMsg(<<>>, <<NS_rr(com, ns1_example_com), NS_rr(com, ns2_example_com)>>,
                   <<A_rr(NS1_EXAMPLE_COM, <<8, 8, 8, 8>>),
                     A_rr(ns2_example_com, <<9, 9, 9, 9>>)>>)
      [] k = "no_glue" ->
           WireMsg(<<>>, <<NS_rr(com, ns1_example_com)>>, <<>>)
      [] k = "only_aaaa" ->
           WireMsg(<<>>, <<NS_rr(com, ns1_example_com)>>,
                   <<AAAA_rr(ns1_example_com), NS_rr(net, ns2_example_com)>>)
      [] k = "self_referral" ->
           WireMsg(<<>>, <<NS_rr(com, glue_example_net)>>,
                   <<A_rr(glue_example_net, <<198, 41, 0, 4>>)>>)
      [] k = "cname_only" ->
           WireMsg(<<CNAME_rr(example_com, glue_example_net)>>,
                   <<NS_rr(com, ns1_example_com)>>,
                   <<A_rr(ns1_example_com, <<8, 8, 8, 8>>)>>)
      \* an NS record in the answer section, naming a server with glue
      [] k = "ns_in_answers" ->
           WireMsg(<<NS_rr(example_com, ns1_example_com)>>,
                   <<NS_rr(com, ns2_example_com)>>,
                   <<A_rr(ns1_example_com, <<8, 8, 8, 8>>),
                     A_rr(ns2_example_com, <<9, 9, 9, 9>>)>>)
      [] k = "cname_no_glue" ->
           WireMsg(<<CNAME_rr(example_com, glue_example_net)>>, <<>>, <<>>)
      [] k = "bad_a_answer" ->
           WireMsg(<<BadA_rr(example_com)>>, <<>>, <<>>)
      [] k = "answer_bad_additional" ->
           WireMsg(<<A_rr(example_com, <<93, 184, 216, 34>>)>>,
                   <<NS_rr(com, ns1_example_com)>>,
                   <<BadA_rr(ns1_example_com)>>)
      [] k = "bad_glue" ->
           WireMsg(<<>>, <<NS_rr(com, ns1_example_com)>>,
                   <<BadA_rr(ns1_example_com)>>)
      [] k = "glue_then_bad" ->
           WireMsg(<<>>, <<NS_rr(com, ns1_example_com), NS_rr(com, ns2_example_com)>>,
                   <<A_rr(ns2_example_com, <<9, 9, 9, 9>>),
                     A_rr(ns1_example_com, <<8, 8, 8, 8>>),
                     BadA_rr(glue_example_net)>>)
      [] k = "fallback_then_bad" ->
           WireMsg(<<>>, <<>>,
                   <<A_rr(glue_example_net, <<9, 9, 9, 9>>),
                     BadA_rr(ns2_example_com)>>)
      \* every name after the question is a pointer to offset 12, the
      \* question's "example.com"; the NS rdata (offset 41) is "ns1" + pointer,
      \* and the glue record's name is a pointer to that rdata
      [] k = "compressed_referral" ->
           Slice(WireMsg(<<>>, <<>>, <<>>), 0, 6) \o PackH(0) \o PackH(1) \o PackH(1)
           \o WireName(example_com) \o PackH(1) \o PackH(1)
           \o <<192, 12>> \o PackH(2) \o PackH(1) \o <<0, 0, 14, 16>> \o PackH(6)
              \o <<3, 110, 115, 49, 192, 12>>
           \o <<192, 41>> \o PackH(1) \o PackH(1) \o <<0, 0, 14, 16>> \o PackH(4)
              \o <<199, 43, 135, 53>>
      \* the NS rdata is a pointer to the question's name followed by three
      \* bytes the name does not use
      [] k = "ns_padded" ->
           WireMsg(<<>>, <<WireRR(com, 2, <<192, 12, 0, 0, 0>>)>>,
                   <<A_rr(example_com, <<8, 8, 8, 8>>)>>)
      \* the NS record has no rdata: the name read at its rdata offset is the
      \* name of the record after it
      [] k = "ns_empty_rdata" ->
           WireMsg(<<>>, <<WireRR(com, 2, <<>>)>>,
                   <<A_rr(ns1_example_com, <<9, 9, 9, 9>>)>>)
      \* two questions, the name of the second a pointer to the first, and
      \* one answer
      [] k = "two_questions" ->
           Slice(WireMsg(<<>>, <<>>, <<>>), 0, 4) \o PackH(2) \o PackH(1)
           \o PackH(0) \o PackH(0)
           \o WireName(example_com) \o PackH(1) \o PackH(1)
           \o <<192, 12>> \o PackH(1) \o PackH(1)
           \o A_rr(example_com, <<93, 184, 216, 34>>)
      \* no question, one answer
      [] k = "no_question" ->
           Slice(WireMsg(<<>>, <<>>, <<>>), 0, 4) \o PackH(0) \o PackH(1)
           \o PackH(0) \o PackH(0)
           \o A_rr(example_com, <<93, 184, 216, 34>>)
      \* the answer's name is a pointer to itself (offset 29)
      [] k = "pointer_loop" ->
           Slice(WireMsg(<<>>, <<>>, <<>>), 0, 6) \o PackH(1) \o PackH(0) \o PackH(0)
           \o WireName(example_com) \o PackH(1) \o PackH(1)
           \o <<192, 29>> \o PackH(1) \o PackH(1) \o <<0, 0, 14, 16>> \o PackH(4)
              \o <<93, 184, 216, 34>>
      [] k = "cut_header" -> Slice(AnswerPopulated, 0, 11)
      [] k = "cut_question" -> Slice(AnswerPopulated, 0, 20)
      \* ends inside the third answer record, after the CNAME and the first A record
      [] k = "cut_second_answer" -> Slice(AnswerPopulated, 0, 100)
      \* ends inside the rdata of the last additional record
      [] k = "cut_additional" ->
           Slice(AnswerPopulated, 0, Len(AnswerPopulated) - 2)
      [] k = "empty" -> <<>>

\* the bytes of each datagram, and parse_response of them
Datagrams == [k \in DatagramKeys |-> Datagram(k)]

Decoded == [k \in DatagramKeys |-> parse_response(Datagrams[k])]


(***************************************************************************)
(* iterative_dns_lookup, with query_dns_server inlined.  One call.         *)
(*                                                                         *)
(* pc: "Querying"   at the head of the while loop                          *)
(*     "Waiting"    in query_dns_server, blocked in recvfrom               *)
(*     "HaveAnswer" returned True                                          *)
(*     "Failed"     returned False                                         *)
(*     "Crashed"    left by an exception nothing caught                    *)
(*     "Looping"    inside a loop that never ends                          *)
(***************************************************************************)
PcValues == {"Querying", "Waiting", "HaveAnswer", "Failed", "Crashed", "Looping"}

\* the most datagrams one call sends in the model
MaxHops == 3

\* transaction ids random.randint(0, 65535) may give
TxIds == {0, 4660, 49164, 65535}

\* sys.argv[2]: an address, or the empty string
Roots == {root_dns_ip, <<>>}

\* sys.argv[1]
Domains == {example_com, exaemple_com}

\* what the except clauses of query_dns_server do: print one of two
\* messages and return None; the caller then returns False
Except(exc) == IF exc = "socket.timeout" THEN "timeout" ELSE "error"

\* query_dns_server that returns the lists filled so far when
\* parse_response raises
QueryResult_partial(parsed) ==
    IF parsed.kind \in {"ok", "raise"} THEN [parsed EXCEPT !.kind = "ok"] ELSE None

\* the value query_dns_server returns once parse_response has stopped with
\* `parsed`: the dict, or None from the except clause
QueryResult(parsed) == IF parsed.kind = "ok" THEN parsed ELSE None

\* the loop going round again with the same server when the query failed
AfterQuery_retry(result, message) ==
    IF result = None
    THEN [pc |-> "Querying", printed |-> printed, failure |-> message,
          current_server |-> current_server]
    ELSE
    LET shown == display_response(result)
        next_server == get_next_server(result)
    IN  IF shown.kind = "raise"
        THEN [pc |-> "Crashed", printed |-> shown.lines, failure |-> shown.exc,
              current_server |-> current_server]
        ELSE IF has_answer(result)
        THEN [pc |-> "HaveAnswer", printed |-> shown.lines, failure |-> "",
              current_server |-> current_server]
        ELSE IF next_server.kind = "raise"
        THEN [pc |-> "Crashed", printed |-> shown.lines, failure |-> next_server.exc,
              current_server |-> current_server]
        ELSE IF next_server = None
        THEN [pc |-> "Failed", printed |-> shown.lines, failure |-> "no next server",
              current_server |-> current_server]
        ELSE [pc |-> "Querying", printed |-> shown.lines, failure |-> "",
              current_server |-> next_server.ip]

\* lines 335-360, with `result` the value query_dns_server returned and
\* `message` what its except clause printed: return False when it is None;
\* otherwise display it, then return True, return False or go round the loop
\* with the next server.  An exception raised here is caught by nothing.
AfterQuery(result, message) ==
    IF result = None
    THEN [pc |-> "Failed", printed |-> printed, failure |-> message,
          current_server |-> current_server]
    ELSE
    LET shown == display_response(result)
        next_server == get_next_server(result)
    IN  IF shown.kind = "raise"
        THEN [pc |-> "Crashed", printed |-> shown.lines, failure |-> shown.exc,
              current_server |-> current_server]
        ELSE IF has_answer(result)
        THEN [pc |-> "HaveAnswer", printed |-> shown.lines, failure |-> "",
              current_server |-> current_server]
        ELSE IF next_server.kind = "raise"
        THEN [pc |-> "Crashed", printed |-> shown.lines, failure |-> next_server.exc,
              current_server |-> current_server]
        ELSE IF next_server = None
        THEN [pc |-> "Failed", printed |-> shown.lines, failure |-> "no next server",
              current_server |-> current_server]
        ELSE [pc |-> "Querying", printed |-> shown.lines, failure |-> "",
              current_server |-> next_server.ip]

\* the assignments of one pass of the loop body from line 332 on
Return(result, message) ==
    LET d == AfterQuery(result, message)
    IN  /\ pc' = d.pc
        /\ current_server' = d.current_server
        /\ printed' = d.printed
        /\ failure' = d.failure
        /\ response' = result

EngineInit ==
    /\ pc = "Querying"
    /\ current_server \in Roots
    /\ response = None
    /\ queried = <<>>
    /\ replies = <<>>
    /\ printed = <<>>
    /\ failure = ""
    /\ open_socks = 0
    /\ visited = <<>>
    /\ sent = <<>>
    /\ domain \in Domains

\* sock.sendto(packet, (dns_server_ip, 53)) in pass number `step` of the loop
SentTo(server, step) == [server |-> server, port |-> 53, step |-> step]

\* while current_server: with an empty string the loop is not entered and
\* line 362 returns False
LoopExit ==
    /\ pc = "Querying"
    /\ current_server = <<>>
    /\ pc' = "Failed"
    /\ failure' = "no server"
    /\ UNCHANGED <<current_server, response, queried, replies, printed, open_socks>>
    /\ UNCHANGED <<visited, sent>>
    /\ UNCHANGED <<codec_vars, decode_vars, pair_vars, apart_vars>>

\* the query sent a second time to the same server in the same pass
SendQuery_twice ==
    /\ pc = "Querying"
    /\ current_server # <<>>
    /\ Len(queried) < MaxHops
    /\ \E tid \in TxIds :
         LET q == build_query(domain, tid)
         IN  IF q.kind = "raise"
             THEN /\ Return(None, Except(q.exc))
                  /\ UNCHANGED <<queried, replies, sent>>
             ELSE /\ pc' = "Waiting"
                  /\ queried' = Append(queried, current_server)
                  /\ sent' = sent \o <<SentTo(current_server, Len(visited) + 1),
                                       SentTo(current_server, Len(visited) + 1)>>
                  /\ UNCHANGED <<current_server, printed, failure, response, replies>>
    /\ visited' = Append(visited, current_server)
    /\ open_socks' = open_socks + 1
    /\ UNCHANGED <<codec_vars, decode_vars, pair_vars, apart_vars>>

\* lines 230-238: the socket is created, the query built and sent; an
\* exception of build_query is caught like any other
SendQuery ==
    /\ pc = "Querying"
    /\ current_server # <<>>
    /\ Len(queried) < MaxHops
    /\ \E tid \in TxIds :
         LET q == build_query(domain, tid)
         IN  IF q.kind = "raise"
             THEN /\ Return(None, Except(q.exc))
                  /\ UNCHANGED <<queried, replies, sent>>
             ELSE /\ pc' = "Waiting"
                  /\ queried' = Append(queried, current_server)
                  /\ sent' = Append(sent, SentTo(current_server, Len(visited) + 1))
                  /\ UNCHANGED <<current_server, printed, failure, response, replies>>
    /\ visited' = Append(visited, current_server)
    /\ open_socks' = open_socks + 1
    /\ UNCHANGED <<codec_vars, decode_vars, pair_vars, apart_vars>>

\* sendto raises (OSError: unreachable network, bad address): nothing is sent
SendFails ==
    /\ pc = "Querying"
    /\ current_server # <<>>
    /\ Len(queried) < MaxHops
    /\ build_query(domain, 0).kind = "ok"
    /\ Return(None, Except("OSError"))
    /\ replies' = Append(replies, "ioerror")
    /\ visited' = Append(visited, current_server)
    /\ open_socks' = open_socks + 1
    /\ UNCHANGED <<queried, sent>>
    /\ UNCHANGED <<codec_vars, decode_vars, pair_vars, apart_vars>>

\* recvfrom raises socket.timeout
RecvTimeout ==
    /\ pc = "Waiting"
    /\ Return(None, Except("socket.timeout"))
    /\ replies' = Append(replies, "timeout")
    /\ UNCHANGED <<queried, open_socks, visited, sent>>
    /\ UNCHANGED <<codec_vars, decode_vars, pair_vars, apart_vars>>

\* recvfrom raises another OSError (ICMP port unreachable, ...)
RecvFails ==
    /\ pc = "Waiting"
    /\ Return(None, Except("OSError"))
    /\ replies' = Append(replies, "ioerror")
    /\ UNCHANGED <<queried, open_socks, visited, sent>>
    /\ UNCHANGED <<codec_vars, decode_vars, pair_vars, apart_vars>>

\* recvfrom returns datagram k: lines 244-247, then lines 335-360.  The
\* socket is closed only when parse_response returned.
RecvDatagram(k) ==
    /\ pc = "Waiting"
    /\ replies' = Append(replies, k)
    /\ LET parsed == Decoded[k]
       IN  IF parsed.kind = "loop"
           THEN /\ pc' = "Looping"
                /\ UNCHANGED <<current_server, response, printed, failure, open_socks>>
           ELSE /\ Return(QueryResult(parsed),
                          IF parsed.kind = "ok" THEN "" ELSE Except("Exception"))
                /\ open_socks' = IF parsed.kind = "ok" THEN open_socks - 1
                                 ELSE open_socks
    /\ UNCHANGED <<queried, visited, sent>>
    /\ UNCHANGED <<codec_vars, decode_vars, pair_vars, apart_vars>>

EngineNext ==
    \/ LoopExit
    \/ SendQuery
    \/ SendFails
    \/ RecvTimeout
    \/ RecvFails
    \/ \E k \in DatagramKeys : RecvDatagram(k)


(***************************************************************************)
(* The codec on its own: build_query for a domain, then the name of the    *)
(* question section read back with _parse_domain_name at offset 12.        *)
(***************************************************************************)
\* the longest domain string enumerated in full
MaxNameLen == 4

\* 'a', 'B', '-', '.'
Alphabet == {97, 66, 45, 46}

\* label lengths around the limits of the length byte
LongLabelLens == {62, 63, 64, 191, 192, 255, 256}

\* n times 'x', and the same after the label "aB"
LongDomains ==
    {[i \in 1..n |-> 120] : n \in LongLabelLens}
    \cup {<<97, 66, 46>> \o [i \in 1..n |-> 120] : n \in LongLabelLens}

CodecDomains ==
    UNION {[1..n -> Alphabet] : n \in 0..MaxNameLen} \cup LongDomains
    \cup {example_com, exaemple_com}

CodecInit ==
    /\ cpc = "start"
    /\ domain \in CodecDomains
    /\ transaction_id \in TxIds
    /\ packet = None
    /\ decoded = None

\* packet = query.build_query()
Build ==
    /\ cpc = "start"
    /\ packet' = build_query(domain, transaction_id)
    /\ cpc' = "built"
    /\ UNCHANGED <<domain, transaction_id, decoded>>
    /\ UNCHANGED <<engine_vars, decode_vars, pair_vars, apart_vars>>

\* _parse_domain_name(packet, 12)
ParseQuestionName ==
    /\ cpc = "built"
    /\ packet.kind = "ok"
    /\ decoded' = parse_domain_name(packet.bytes, 12)
    /\ cpc' = "parsed"
    /\ UNCHANGED <<domain, transaction_id, packet>>
    /\ UNCHANGED <<engine_vars, decode_vars, pair_vars, apart_vars>>

CodecNext == Build \/ ParseQuestionName

(***************************************************************************)
(* The decoder on its own: the parsing methods applied to a buffer as it   *)
(* may come off the wire, whatever its content.                            *)
(***************************************************************************)
\* the longest buffer enumerated in full
MaxBufLen == 5

\* terminator, label lengths / pointer targets, 'a', pointer marker
BufBytes == {0, 1, 2, 97, 192}

SmallBuffers == UNION {[1..n -> BufBytes] : n \in 1..MaxBufLen}

\* every datagram of the servers, and every prefix of one (a datagram cut
\* short by the sender or by the 4096 of recvfrom)
Prefixes(d) == {SubSeq(d, 1, n) : n \in 0..Len(d)}

CutDatagrams == UNION {Prefixes(Datagrams[k]) : k \in DatagramKeys}

WholeDatagrams == {Datagrams[k] : k \in DatagramKeys}

\* names that share their tails through pointers, backwards and forwards:
\*    0: "a"            3: -> 0         5: "b" -> 3
\*    9: -> 13         11: 0 0         13: -> 15        15: "c"
chained_names ==
    <<1, 97, 0,  192, 0,  1, 98, 192, 3,
      192, 13,  0, 0,  192, 15,  1, 99, 0>>

\* one label of n times 'x' and the terminator, for a length byte n at and
\* around the values whose top two bits are 00, 01 and 10
LongLabelBuffers ==
    {<<n>> \o [i \in 1..n |-> 120] \o <<0>> : n \in {63, 64, 127, 128, 191}}

\* a pointer whose 14 bits do not fit one byte: it refers to offset 300,
\* where "a" is written; the bytes between are zeros
far_pointer == <<193, 44>> \o [i \in 1..298 |-> 0] \o <<1, 97, 0>>

\* datagram d as a server sends it in reply to a query with transaction id t
WithTxId(d, t) == PackH(t) \o SubSeq(d, 3, Len(d))

\* the whole datagrams under every transaction id
ReplayedDatagrams ==
    {WithTxId(Datagrams[k], t) : k \in {j \in DatagramKeys : Len(Datagrams[j]) >= 12},
                                 t \in TxIds}

\* the transaction ids of the DNSQuery object that parses buffer d
QueryIds(d) == IF d \in ReplayedDatagrams THEN TxIds ELSE {0}

\* where reading starts: anywhere in a small buffer, in the chained names
\* or in a whole datagram, at the first byte of a long label or of the far
\* pointer, at the question (offset 12) of a cut datagram
Offsets(d) ==
    IF d \in SmallBuffers \cup WholeDatagrams \cup {chained_names} /\ d # <<>>
    THEN 0..(Len(d) - 1)
    ELSE IF d \in LongLabelBuffers \cup {far_pointer} THEN {0}
    ELSE {12}

Idle ==
    /\ buffer = <<>>
    /\ start = 0
    /\ parsed_name = None
    /\ skipped = None
    /\ parsed_message = None
    /\ bpc = "idle"
    /\ calls = <<>>

\* no second call
Single ==
    /\ other = None
    /\ running = 1

\* parse_response is not run step by step
StepIdle ==
    /\ spc = "idle"
    /\ soffset = 0
    /\ sleft = 0
    /\ ssection = 0
    /\ sheader = <<>>
    /\ nameframe = None
    /\ lists = <<>>

\* connections to the CryptoServer, in the order they are accepted
MaxSessions == 2

\* commands one connection sends before it falls silent
MaxRequests == 3

Sessions == 1..MaxSessions

\* the locals of a handle_client call not made yet
NoSession ==
    [st |-> "unborn", client_id |-> "", control |-> "none",
     data_socket |-> "none", data_conn |-> FALSE, out |-> {},
     requests |-> 0, connected |-> FALSE, premature |-> FALSE, supplied |-> 0,
     me |-> 0]

\* the CryptoServer as __init__ leaves it, no connection accepted
CryptoIdle ==
    /\ sessions = [s \in Sessions |-> NoSession]
    /\ client_public_keys = <<>>

\* no FTP client runs
FtpIdle ==
    /\ fpc = "idle"
    /\ variant = ""
    /\ verb = ""
    /\ cont = ""
    /\ ctrl = <<>>
    /\ server_open = FALSE
    /\ acc = <<>>
    /\ lastlen = -1
    /\ data_socket = "none"
    /\ ncmd = 0
    /\ nuser = 0
    /\ owed = 0
    /\ consumed = {}
    /\ returned = {}

DecodeInit ==
    /\ bpc = "start"
    /\ buffer \in SmallBuffers \cup CutDatagrams \cup {chained_names}
                  \cup ReplayedDatagrams \cup LongLabelBuffers \cup {far_pointer}
    /\ start \in Offsets(buffer)
    /\ parsed_name = None
    /\ skipped = None
    /\ parsed_message = None
    /\ calls = <<>>

\* name, offset = self._parse_domain_name(data, offset)
ParseName ==
    /\ bpc = "start"
    /\ parsed_name' = parse_domain_name(buffer, start)
    /\ bpc' = "named"
    /\ UNCHANGED <<buffer, start, skipped, parsed_message, calls>>
    /\ UNCHANGED <<engine_vars, codec_vars, pair_vars, apart_vars>>

\* offset = self._skip_domain_name(data, offset), on the same buffer
SkipName ==
    /\ bpc = "named"
    /\ skipped' = skip_domain_name(buffer, start)
    /\ bpc' = "skipped"
    /\ UNCHANGED <<buffer, start, parsed_name, parsed_message, calls>>
    /\ UNCHANGED <<engine_vars, codec_vars, pair_vars, apart_vars>>

\* offset = self._skip_question_section(data, offset, questions), as
\* parse_response calls it: from offset 12, with the count of the header
SkipQuestions ==
    /\ bpc = "start"
    /\ start = 12
    /\ Len(Slice(buffer, 0, 12)) = 12
    /\ skipped' = skip_question_section(buffer, 12, UnpackH(Slice(buffer, 4, 6)))
    /\ bpc' = "questions"
    /\ UNCHANGED <<buffer, start, parsed_name, parsed_message, calls>>
    /\ UNCHANGED <<engine_vars, codec_vars, pair_vars, apart_vars>>

\* the DNSQuery object: its two attributes
Self == [domain |-> domain, transaction_id |-> transaction_id]

\* one call of a method of the object: the argument, what it returned or
\* raised, and the object before and after
Call(op, arg, result, before, after) ==
    [op |-> op, arg |-> arg, result |-> result, before |-> before, after |-> after]

\* response = query.parse_response(data)
ParseResponse ==
    /\ bpc = "start"
    /\ parsed_message' = parse_response(buffer)
    /\ bpc' = "parsed"
    /\ UNCHANGED <<buffer, start, parsed_name, skipped>>
    /\ UNCHANGED <<engine_vars, codec_vars, pair_vars, apart_vars>>
    /\ calls' = Append(calls, Call("parse_response", buffer', parsed_message',
                                   Self, Self'))

\* the most calls made on one object
MaxCalls == 5

\* the buffers handed to a later parse_response of the same object: the one
\* of its first call again, or another datagram
AgainBuffers ==
    IF calls = <<>> THEN {} ELSE {calls[1].arg, Datagrams["answer_populated"]}

\* the datagrams whose parsing is followed by further calls, as replies to
\* the query with id 49164
FirstBuffers ==
    {WithTxId(Datagrams[k], 49164) :
        k \in {"referral_iana", "answer", "precedence", "no_glue",
               "bad_a_answer", "compressed_referral"}}

\* further calls are made on the objects that first parsed one of
\* FirstBuffers, once the call before has returned or raised
CallAgain ==
    /\ bpc = "parsed"
    /\ start = 12
    /\ calls # <<>>
    /\ calls[1].arg \in FirstBuffers
    /\ Len(calls) < MaxCalls
    /\ parsed_message.kind # "loop"

\* response = query.parse_response(data) once more, on the same object
ParseAgain(b) ==
    /\ CallAgain
    /\ buffer' = b
    /\ parsed_message' = parse_response(b)
    /\ UNCHANGED <<start, parsed_name, skipped, bpc>>
    /\ UNCHANGED <<engine_vars, codec_vars, pair_vars, apart_vars>>
    /\ calls' = Append(calls, Call("parse_response", buffer', parsed_message',
                                   Self, Self'))

\* packet = query.build_query(), on the object that parsed
EncodeQuery ==
    /\ CallAgain
    /\ packet' = build_query(domain, transaction_id)
    /\ UNCHANGED <<domain, transaction_id, decoded, cpc>>
    /\ UNCHANGED <<buffer, start, parsed_name, skipped, parsed_message, bpc>>
    /\ UNCHANGED <<engine_vars, pair_vars, apart_vars>>
    /\ calls' = Append(calls, Call("build_query", <<>>, packet', Self, Self'))

DecodeNext ==
    \/ ParseName
    \/ SkipName
    \/ SkipQuestions
    \/ ParseResponse
    \/ \E b \in AgainBuffers : ParseAgain(b)
    \/ EncodeQuery


(***************************************************************************)
(* parse_response run one loop iteration at a time: the for loop of        *)
(* _skip_question_section, the while loop of _skip_domain_name, the for    *)
(* loop of _parse_resource_records (once per section) and the while loop   *)
(* of _parse_domain_name, for a record's name and for the name inside an   *)
(* NS rdata.  A call that never returns is a behaviour that never reaches  *)
(* "returned" or "raised".                                                 *)
(*                                                                         *)
(* spc: "start"     parse_response called, nothing done yet                *)
(*      "questions" at the head of the for loop of _skip_question_section  *)
(*      "skip"      at the head of the while loop of _skip_domain_name     *)
(*      "records"   at the head of the for loop of _parse_resource_records *)
(*      "name"      at the head of the while loop of _parse_domain_name    *)
(*      "returned"  parse_response returned the dict                       *)
(*      "raised"    an exception left parse_response                       *)
(***************************************************************************)
\* a message whose NS rdata (offset 41) is a pointer to offset 43, where a
\* pointer leads back to offset 41
rdata_cycle ==
    Slice(WireMsg(<<>>, <<>>, <<>>), 0, 6) \o PackH(0) \o PackH(1) \o PackH(0)
    \o WireName(example_com) \o PackH(1) \o PackH(1)
    \o <<192, 12>> \o PackH(2) \o PackH(1) \o <<0, 0, 14, 16>> \o PackH(4)
       \o <<192, 43, 192, 41>>

\* the buffers parsed step by step: every datagram, every prefix of the
\* compressed referral, and the pointer cycle inside an rdata.  (A cycle that
\* passes through a label appends to `labels` on every round.)
StepBuffers ==
    {Datagrams[k] : k \in DatagramKeys}
    \cup Prefixes(Datagrams["compressed_referral"])
    \cup {rdata_cycle}

dns_vars == <<engine_vars, codec_vars, decode_vars, pair_vars>>

\* the variables no step of parse_response changes
outside_steps == <<dns_vars, ftp_vars, crypto_vars>>

StepInit ==
    /\ spc = "start"
    /\ buffer \in StepBuffers
    /\ soffset = 0
    /\ sleft = 0
    /\ ssection = 0
    /\ sheader = <<>>
    /\ nameframe = None
    /\ lists = <<<<>>, <<>>, <<>>>>

\* an exception leaves parse_response: nothing catches it there
StepRaise ==
    /\ spc' = "raised"
    /\ UNCHANGED <<soffset, sleft, ssection, sheader, nameframe, lists>>

\* lines 95-101: the header unpacked, offset = 12
UnpackHeader ==
    /\ spc = "start"
    /\ IF Len(Slice(buffer, 0, 12)) # 12
       THEN StepRaise
       ELSE /\ sheader' = [i \in 1..6 |-> UnpackH(SubSeq(buffer, 2 * i - 1, 2 * i))]
            /\ soffset' = 12
            /\ sleft' = sheader'[3]
            /\ spc' = "questions"
            /\ UNCHANGED <<ssection, nameframe, lists>>
    /\ UNCHANGED outside_steps

\* the question loop begun again from offset 12 whenever its count is used up
QuestionLoop_again ==
    /\ spc = "questions"
    /\ IF sleft > 0
       THEN /\ spc' = "skip"
            /\ UNCHANGED <<soffset, sleft, ssection>>
       ELSE /\ spc' = IF sheader[3] > 0 THEN "skip" ELSE "records"
            /\ ssection' = IF sheader[3] > 0 THEN 0 ELSE 1
            /\ sleft' = IF sheader[3] > 0 THEN sheader[3] ELSE sheader[4]
            /\ soffset' = IF sheader[3] > 0 THEN 12 ELSE soffset
    /\ UNCHANGED <<sheader, nameframe, lists>>
    /\ UNCHANGED outside_steps

\* the head of `for _ in range(count)` of _skip_question_section (line 130):
\* one more name to skip, or the return to parse_response, which calls
\* _parse_resource_records for the answers (line 106)
QuestionLoop ==
    /\ spc = "questions"
    /\ IF sleft > 0
       THEN /\ spc' = "skip"
            /\ UNCHANGED <<soffset, sleft, ssection>>
       ELSE /\ spc' = "records"
            /\ ssection' = 1
            /\ sleft' = sheader[4]
            /\ UNCHANGED soffset
    /\ UNCHANGED <<sheader, nameframe, lists>>
    /\ UNCHANGED outside_steps

\* one iteration of the while loop of _skip_domain_name that ends in its
\* else branch (line 151): a label is passed over
SkipLabel ==
    /\ spc = "skip"
    /\ soffset < Len(buffer)
    /\ buffer[soffset + 1] # 0
    /\ ~IsPointer(buffer[soffset + 1])
    /\ soffset' = soffset + buffer[soffset + 1] + 1
    /\ UNCHANGED <<spc, sleft, ssection, sheader, nameframe, lists>>
    /\ UNCHANGED outside_steps

\* the iteration that breaks (lines 143-148), the return, and offset += 4 of
\* _skip_question_section (line 134)
SkipEnds ==
    /\ spc = "skip"
    /\ soffset < Len(buffer)
    /\ buffer[soffset + 1] = 0 \/ IsPointer(buffer[soffset + 1])
    /\ soffset' = soffset + (IF buffer[soffset + 1] = 0 THEN 1 ELSE 2) + 4
    /\ sleft' = sleft - 1
    /\ spc' = "questions"
    /\ UNCHANGED <<ssection, sheader, nameframe, lists>>
    /\ UNCHANGED outside_steps

\* length = data[offset] past the end of the buffer (line 142): IndexError
SkipFails ==
    /\ spc = "skip"
    /\ soffset >= Len(buffer)
    /\ StepRaise
    /\ UNCHANGED outside_steps

\* the locals of a _parse_domain_name call that starts at offset (lines
\* 157-159), with what its caller keeps meanwhile
NameFrame(offset, caller, record, rdata_end) ==
    [labels |-> <<>>, jumped |-> FALSE, original_offset |-> offset,
     caller |-> caller, record |-> record, rdata_end |-> rdata_end]

\* the head of `for _ in range(count)` of _parse_resource_records (line
\* 190): the name of one more record is read, or the method returns and
\* parse_response goes on to the next section, or returns the dict
RecordLoop ==
    /\ spc = "records"
    /\ IF sleft > 0
       THEN /\ spc' = "name"
            /\ nameframe' = NameFrame(soffset, "record", None, 0)
            /\ UNCHANGED <<soffset, sleft, ssection>>
       ELSE IF ssection < 3
       THEN /\ ssection' = ssection + 1
            /\ sleft' = sheader[4 + ssection]
            /\ UNCHANGED <<spc, soffset, nameframe>>
       ELSE /\ spc' = "returned"
            /\ UNCHANGED <<soffset, sleft, ssection, nameframe>>
    /\ UNCHANGED <<sheader, lists>>
    /\ UNCHANGED outside_steps

\* one iteration of the while loop of _parse_domain_name that reads a label
\* (lines 174-177)
NameLabel ==
    /\ spc = "name"
    /\ soffset < Len(buffer)
    /\ buffer[soffset + 1] # 0
    /\ ~IsPointer(buffer[soffset + 1])
    /\ LET length == buffer[soffset + 1]
       IN  /\ nameframe' =
                 [nameframe EXCEPT !.labels =
                      Append(@, DecodeAsciiIgnore(
                                    Slice(buffer, soffset + 1, soffset + 1 + length)))]
           /\ soffset' = soffset + 1 + length
    /\ UNCHANGED <<spc, sleft, ssection, sheader, lists>>
    /\ UNCHANGED outside_steps

\* one iteration that follows a compression pointer (lines 167-173)
NameJump ==
    /\ spc = "name"
    /\ soffset < Len(buffer)
    /\ IsPointer(buffer[soffset + 1])
    /\ Len(Slice(buffer, soffset, soffset + 2)) = 2
    /\ soffset' = PointerTarget(buffer, soffset)
    /\ nameframe' = [nameframe EXCEPT
                        !.jumped = TRUE,
                        !.original_offset = IF nameframe.jumped THEN @ ELSE soffset + 2]
    /\ UNCHANGED <<spc, sleft, ssection, sheader, lists>>
    /\ UNCHANGED outside_steps

\* length = data[offset] past the end of the buffer (line 162, IndexError),
\* or a pointer cut after its first byte (line 170, struct.error)
NameFails ==
    /\ spc = "name"
    /\ \/ soffset >= Len(buffer)
       \/ /\ soffset < Len(buffer)
          /\ IsPointer(buffer[soffset + 1])
          /\ Len(Slice(buffer, soffset, soffset + 2)) # 2
    /\ StepRaise
    /\ UNCHANGED outside_steps

\* lines 218-219: offset = rdata_end, records.append(record), and back to
\* the head of the for loop
RecordDone(record, rdata_end) ==
    /\ lists' = [lists EXCEPT ![ssection] = Append(@, record)]
    /\ soffset' = rdata_end
    /\ sleft' = sleft - 1
    /\ spc' = "records"
    /\ nameframe' = None
    /\ UNCHANGED <<ssection, sheader>>

\* lines 194-216 once the record's name is read: the fields, then the
\* address of an A record, or the call of _parse_domain_name for the name in
\* the rdata of an NS record
RecordFields(name, offset) ==
    LET fields == Slice(buffer, offset, offset + 10)
    IN  IF Len(fields) # 10 THEN StepRaise
        ELSE
        LET rr_type == UnpackH(SubSeq(fields, 1, 2))
            rr_class == UnpackH(SubSeq(fields, 3, 4))
            ttl == UnpackI(SubSeq(fields, 5, 8))
            rdlength == UnpackH(SubSeq(fields, 9, 10))
            rdata_start == offset + 10
            rdata_end == rdata_start + rdlength
            record == [name |-> name, type |-> rr_type, class |-> rr_class,
                       ttl |-> ttl, rdlength |-> rdlength]
        IN  IF rr_type = 1 /\ rdlength = 4
            THEN LET a == inet_ntoa(Slice(buffer, rdata_start, rdata_end))
                 IN  IF a.kind # "ok" THEN StepRaise
                     ELSE RecordDone([name |-> name, type |-> rr_type,
                                      class |-> rr_class, ttl |-> ttl,
                                      rdlength |-> rdlength, ip |-> a.ip],
                                     rdata_end)
            ELSE IF rr_type = 2
            THEN /\ spc' = "name"
                 /\ soffset' = rdata_start
                 /\ nameframe' = NameFrame(rdata_start, "rdata", record, rdata_end)
                 /\ UNCHANGED <<sleft, ssection, sheader, lists>>
            ELSE RecordDone(record, rdata_end)

\* the iteration that meets the zero byte (lines 164-166), the return
\* (lines 179-182) and what the caller does with the name: the rest of the
\* loop body of _parse_resource_records
NameEnds ==
    /\ spc = "name"
    /\ soffset < Len(buffer)
    /\ buffer[soffset + 1] = 0
    /\ LET name == Join(nameframe.labels)
           offset == IF nameframe.jumped THEN nameframe.original_offset
                     ELSE soffset + 1
       IN  IF nameframe.caller = "rdata"
           THEN RecordDone([name |-> nameframe.record.name,
                            type |-> nameframe.record.type,
                            class |-> nameframe.record.class,
                            ttl |-> nameframe.record.ttl,
                            rdlength |-> nameframe.record.rdlength,
                            nameserver |-> name],
                           nameframe.rdata_end)
           ELSE RecordFields(name, offset)
    /\ UNCHANGED outside_steps

StepNext ==
    \/ UnpackHeader
    \/ QuestionLoop
    \/ SkipLabel
    \/ SkipEnds
    \/ SkipFails
    \/ RecordLoop
    \/ NameLabel
    \/ NameJump
    \/ NameFails
    \/ NameEnds

(***************************************************************************)
(* Two calls of iterative_dns_lookup interleaved (two threads of one       *)
(* process).  Everything a call reads or writes is a local of its own      *)
(* frames (current_server, response, and in query_dns_server sock, query,  *)
(* packet, data) or an object only those locals refer to: the module has   *)
(* no global that a call assigns.  The engine variables hold the locals of *)
(* the call that runs; `other` holds those of the call that is suspended.  *)
(***************************************************************************)
\* the datagrams the servers send in the runs of two calls
PairKeys == {"referral_iana", "answer", "precedence", "no_glue",
             "bad_a_answer", "pointer_loop", "cut_header"}

\* the locals of the call that runs
Locals ==
    [pc |-> pc, current_server |-> current_server, response |-> response,
     queried |-> queried, replies |-> replies, printed |-> printed,
     failure |-> failure, open_socks |-> open_socks, visited |-> visited,
     sent |-> sent, domain |-> domain]

\* iterative_dns_lookup(domain, root_dns_ip) before its first statement
FreshCalls ==
    {[pc |-> "Querying", current_server |-> r, response |-> None,
      queried |-> <<>>, replies |-> <<>>, printed |-> <<>>, failure |-> "",
      open_socks |-> 0, visited |-> <<>>, sent |-> <<>>, domain |-> d] :
        r \in Roots, d \in Domains}

\* current_server kept in one place for both calls (a module-level
\* variable): a switch leaves it as the suspended call set it
Switch_shared_server ==
    /\ other' = Locals
    /\ running' = 3 - running
    /\ pc' = other.pc
    /\ response' = other.response
    /\ queried' = other.queried
    /\ replies' = other.replies
    /\ printed' = other.printed
    /\ failure' = other.failure
    /\ open_socks' = other.open_socks
    /\ visited' = other.visited
    /\ sent' = other.sent
    /\ domain' = other.domain
    /\ UNCHANGED <<current_server, transaction_id, packet, decoded, cpc>>
    /\ UNCHANGED <<decode_vars, apart_vars>>

\* the scheduler suspends the call that runs and resumes the other one,
\* each with its own locals
Switch ==
    /\ other' = Locals
    /\ running' = 3 - running
    /\ pc' = other.pc
    /\ current_server' = other.current_server
    /\ response' = other.response
    /\ queried' = other.queried
    /\ replies' = other.replies
    /\ printed' = other.printed
    /\ failure' = other.failure
    /\ open_socks' = other.open_socks
    /\ visited' = other.visited
    /\ sent' = other.sent
    /\ domain' = other.domain
    /\ UNCHANGED <<transaction_id, packet, decoded, cpc>>
    /\ UNCHANGED <<decode_vars, apart_vars>>

PairInit ==
    /\ EngineInit
    /\ other \in FreshCalls
    /\ running = 1

\* a step of the call that runs, or a switch to the other call
PairNext ==
    \/ Switch
    \/ LoopExit
    \/ SendQuery
    \/ SendFails
    \/ RecvTimeout
    \/ RecvFails
    \/ \E k \in PairKeys : RecvDatagram(k)

(***************************************************************************)
(* The FTP clients: FTPClient ("FTP Client/myftp.py"; myftp_isabella.py   *)
(* has the same methods line for line), SimpleFTP                          *)
(* ("1_FTP Client/myftp_martin.py") and the functions of myftp_justin.py.  *)
(*                                                                         *)
(* Text on the control connection is a sequence of tokens: the text of a   *)
(* reply line (its three digit code, and for the properties the number of  *)
(* the command the server sent it for, which no client reads) and the      *)
(* line end "\r\n".  A recv may return the stream cut at any token.  A     *)
(* step of a client runs from one blocking call (input, recv, readline,    *)
(* the data loop) to the next.  The session starts after connect and       *)
(* login.  The server sends single line replies, opens the data            *)
(* connection it announces, and may close the control connection at any    *)
(* time.                                                                   *)
(***************************************************************************)
Variants == {"FTPClient", "SimpleFTP", "justin"}

\* the variables no step of an FTP client changes
outside_ftp == <<dns_vars, step_vars, crypto_vars>>

\* lines the user types at the prompt before the input ends or stays away
MaxCommands == 3

CRLF == [code |-> 0, of |-> 0]

\* the reply line with this code the server sends for command number k
Reply(code, k) == <<[code |-> code, of |-> k], CRLF>>

\* str.endswith('\r\n')
EndsWithCRLF(text) == text # <<>> /\ text[Len(text)] = CRLF

\* str.strip(): line ends at both ends go
Strip(text) ==
    LET kept == {i \in 1..Len(text) : text[i] # CRLF}
    IN  IF kept = {} THEN <<>>
        ELSE SubSeq(text, CHOOSE i \in kept : \A j \in kept : i <= j,
                          CHOOSE i \in kept : \A j \in kept : i >= j)

\* str.rstrip("\r\n")
RStrip(text) ==
    LET kept == {i \in 1..Len(text) : text[i] # CRLF}
    IN  IF kept = {} THEN <<>>
        ELSE SubSeq(text, 1, CHOOSE i \in kept : \A j \in kept : i >= j)

\* the three digits a text starts with, 0 where it does not start with a
\* reply code (response.startswith('227'), int(line[:3]))
FirstCode(text) == IF text = <<>> THEN 0 ELSE text[1].code

\* the command the server sent the head of this text for
FirstOf(text) == IF text = <<>> THEN 0 ELSE text[1].of

\* the replies in a piece of the stream, with the last command sent
Tags(piece) == {<<ncmd, piece[i].of>> : i \in {j \in 1..Len(piece) : piece[j] # CRLF}}

\* what the server sends on receiving command number k: CWD done or refused,
\* PASV entered or refused, QUIT acknowledged; RETR and LIST refused, or
\* begun (150) with the completion reply (226) to come when the data has
\* gone, which for a short transfer is at once
Reactions(command, k) ==
    IF ~server_open THEN {[tokens |-> <<>>, owed |-> 0]}
    ELSE CASE command = "CWD" ->
                {[tokens |-> Reply(250, k), owed |-> 0],
                 [tokens |-> Reply(550, k), owed |-> 0]}
           [] command = "PASV" ->
                {[tokens |-> Reply(227, k), owed |-> 0],
                 [tokens |-> Reply(425, k), owed |-> 0]}
           [] command = "QUIT" ->
                {[tokens |-> Reply(221, k), owed |-> 0]}
           [] OTHER ->
                {[tokens |-> Reply(550, k), owed |-> 0],
                 [tokens |-> Reply(150, k), owed |-> k],
                 [tokens |-> Reply(150, k) \o Reply(226, k), owed |-> 0]}

\* the completion reply the server sends when the data connection is done
\* with: 226 after a whole transfer, 426 after one the client broke off
Completion(outcome) ==
    IF owed = 0 \/ ~server_open THEN <<>>
    ELSE Reply(IF outcome = "complete" THEN 226 ELSE 426, owed)

\* the client goes on at position p
Become(p, v, c, wire, o, n, sock) ==
    /\ fpc' = p
    /\ verb' = v
    /\ cont' = c
    /\ ctrl' = wire
    /\ owed' = o
    /\ ncmd' = n
    /\ data_socket' = sock
    /\ acc' = <<>>
    /\ lastlen' = -1

\* back at input("myftp> ")
Prompt(wire, sock) == Become("prompt", "", "", wire, 0, ncmd, sock)

\* a command goes out on the control socket and the client waits for the
\* reply (FTPClient.send_command lines 65-70; _send and _read_reply;
\* _send_cmd and _read_reply)
Send(command, v, c, wire, sock) ==
    \E r \in Reactions(command, ncmd + 1) :
        Become("read", v, c, wire \o r.tokens, r.owed, ncmd + 1, sock)

FtpInit ==
    /\ fpc = "prompt"
    /\ variant \in Variants
    /\ verb = ""
    /\ cont = ""
    /\ ctrl = <<>>
    /\ server_open = TRUE
    /\ acc = <<>>
    /\ lastlen = -1
    /\ data_socket = "none"
    /\ ncmd = 0
    /\ nuser = 0
    /\ owed = 0
    /\ consumed = {}
    /\ returned = {}

\* the server closes the control connection, between replies or (cut) in
\* the middle of the last one it sent
ServerCloses ==
    /\ fpc \in {"prompt", "read", "transfer"}
    /\ server_open
    /\ server_open' = FALSE
    /\ owed' = 0
    /\ \E cut \in BOOLEAN :
          IF cut
          THEN EndsWithCRLF(ctrl) /\ ctrl' = SubSeq(ctrl, 1, Len(ctrl) - 1)
          ELSE ctrl' = ctrl
    /\ UNCHANGED <<fpc, variant, verb, cont, acc, lastlen, data_socket, ncmd,
                   nuser, consumed, returned>>
    /\ UNCHANGED outside_ftp

(***************************************************************************)
(* FTPClient                                                               *)
(***************************************************************************)
\* run_connection: one line of input and the command up to its first wait.
\* "eof" is input() raising EOFError, which line 340 catches.
run_connection ==
    /\ fpc = "prompt"
    /\ variant = "FTPClient"
    /\ nuser < MaxCommands
    /\ nuser' = nuser + 1
    /\ \E typed \in {"cd", "get", "ls", "quit", "eof"} :
          CASE typed = "cd" -> Send("CWD", "cd", "cd", ctrl, data_socket)
            [] typed \in {"get", "ls"} ->
                  Send("PASV", typed, "pasv", ctrl, "none")
            [] typed = "quit" -> Send("QUIT", "quit", "quit", ctrl, data_socket)
            [] OTHER -> Prompt(ctrl, data_socket)
    /\ UNCHANGED <<variant, server_open, consumed, returned>>
    /\ UNCHANGED outside_ftp

\* what follows receive_response returning `text`: the rest of send_command
\* and of the method that called it, up to the next wait
\*   cd_command 179-184, quit_command 287-290 and the break of line 333,
\*   create_data_connection 116-133 and then line 146 or 194,
\*   ls_command 147-151 and 171, get_command 195-199 and 224,
\*   the final reply 169, 218
FTPClient_goes_on(text, wire) ==
    CASE cont = "cd" -> Prompt(wire, data_socket)
      [] cont = "quit" -> Become("ended", "", "", wire, 0, ncmd, data_socket)
      [] cont = "pasv" ->
            IF FirstCode(text) = 227
            THEN Send(IF verb = "get" THEN "RETR" ELSE "LIST", verb, "start",
                      wire, "open")
            ELSE Prompt(wire, data_socket)
      [] cont = "start" ->
            IF FirstCode(text) \in {150, 125}
            THEN Become("transfer", verb, "", wire, owed, ncmd, data_socket)
            ELSE Prompt(wire, "closed")
      [] OTHER -> Prompt(wire, data_socket)

\* receive_response (lines 44-59): one recv of the loop.  recv returns what
\* has arrived, b'' once the server has closed and all has been read; the
\* loop ends only on a text that ends with "\r\n".
receive_response ==
    /\ fpc = "read"
    /\ variant = "FTPClient"
    /\ ctrl # <<>> \/ ~server_open
    /\ \E n \in (IF ctrl = <<>> THEN {0} ELSE 1..Len(ctrl)) :
          LET chunk == SubSeq(ctrl, 1, n)
              wire == SubSeq(ctrl, n + 1, Len(ctrl))
              text == acc \o chunk
          IN  /\ consumed' = consumed \cup Tags(chunk)
              /\ IF EndsWithCRLF(text)
                 THEN /\ FTPClient_goes_on(Strip(text), wire)
                      /\ returned' =
                            IF cont = "final" THEN returned
                            ELSE returned \cup {<<ncmd, FirstOf(Strip(text))>>}
                 ELSE /\ acc' = text
                      /\ lastlen' = n
                      /\ ctrl' = wire
                      /\ UNCHANGED <<fpc, verb, cont, owed, ncmd, data_socket,
                                     returned>>
    /\ UNCHANGED <<variant, server_open, nuser>>
    /\ UNCHANGED outside_ftp

\* the data loops of get_command (lines 201-222) and ls_command (lines
\* 153-169).  get: open() or recv raising is caught at line 220, which closes
\* the data socket and returns.  ls: recv raising leaves the loop (line 161)
\* and the method goes on as after the end of the data.
FTPClient_transfer ==
    /\ fpc = "transfer"
    /\ variant = "FTPClient"
    /\ \E outcome \in {"complete", "open_fails", "socket_error"} :
          /\ outcome = "open_fails" => verb = "get"
          /\ IF outcome = "complete" \/ verb = "ls"
             THEN Become("read", verb, "final", ctrl \o Completion(outcome),
                         0, ncmd, "closed")
             ELSE Prompt(ctrl \o Completion(outcome), "closed")
    /\ UNCHANGED <<variant, server_open, nuser, consumed, returned>>
    /\ UNCHANGED outside_ftp

(***************************************************************************)
(* SimpleFTP and myftp_justin.py: replies read line by line from           *)
(* makefile("r", newline="\r\n")                                           *)
(***************************************************************************)
\* reader.readline() returns: a whole line has arrived, or the stream has
\* ended
LineReady == (\E i \in 1..Len(ctrl) : ctrl[i] = CRLF) \/ ~server_open

\* reader.readline(): the text up to and with the first "\r\n"; at the end
\* of the stream what is left of it, '' if nothing
ReadLine ==
    LET ends == {i \in 1..Len(ctrl) : ctrl[i] = CRLF}
    IN  IF ends # {} THEN SubSeq(ctrl, 1, CHOOSE i \in ends : \A j \in ends : i <= j)
        ELSE ctrl

\* _read_reply (myftp_martin.py 36-58) for the line read: RuntimeError on
\* '', code 0 for a line that does not start with three digits
SimpleFTP_read_reply(textline) ==
    IF textline = <<>> THEN [kind |-> "raise", exc |-> "RuntimeError"]
    ELSE [kind |-> "ok", code |-> FirstCode(RStrip(textline)),
          of |-> FirstOf(RStrip(textline))]

\* _read_reply (myftp_justin.py 12-32): RuntimeError also for a line that
\* does not start with three digits
justin_read_reply(textline) ==
    IF textline = <<>> \/ FirstCode(RStrip(textline)) = 0
    THEN [kind |-> "raise", exc |-> "RuntimeError"]
    ELSE [kind |-> "ok", code |-> FirstCode(RStrip(textline)),
          of |-> FirstOf(RStrip(textline))]

\* SimpleFTP.loop (lines 220-246): one line of input and the command up to
\* its first wait.  "eof" is input() raising EOFError: do_quit and break.
loop ==
    /\ fpc = "prompt"
    /\ variant = "SimpleFTP"
    /\ nuser < MaxCommands
    /\ nuser' = nuser + 1
    /\ \E typed \in {"cd", "get", "quit", "eof"} :
          CASE typed = "cd" -> Send("CWD", "cd", "cd", ctrl, data_socket)
            [] typed = "get" -> Send("PASV", "get", "pasv", ctrl, "none")
            [] OTHER -> Send("QUIT", "quit", "quit", ctrl, data_socket)
    /\ UNCHANGED <<variant, server_open, consumed, returned>>
    /\ UNCHANGED outside_ftp

\* repl (myftp_justin.py 218-246)
repl ==
    /\ fpc = "prompt"
    /\ variant = "justin"
    /\ nuser < MaxCommands
    /\ nuser' = nuser + 1
    /\ \E typed \in {"cd", "get", "quit", "eof"} :
          CASE typed = "cd" -> Send("CWD", "cd", "cd", ctrl, data_socket)
            [] typed = "get" -> Send("PASV", "get", "pasv", ctrl, "none")
            [] OTHER -> Send("QUIT", "quit", "quit", ctrl, data_socket)
    /\ UNCHANGED <<variant, server_open, consumed, returned>>
    /\ UNCHANGED outside_ftp

\* SimpleFTP: what follows _read_reply for the reply r.  Only do_quit
\* (lines 202-217) catches what _read_reply raises; from do_cd,
\* _open_data_socket and do_get it passes through loop and ends the program,
\* the data socket left as it is.
\*   do_cd 130-135, _open_data_socket 81-97 and then line 141,
\*   do_get 142-148 and 158-161
SimpleFTP_goes_on(r, wire) ==
    IF cont = "quit" THEN Become("ended", "", "", wire, 0, ncmd, data_socket)
    ELSE IF r.kind = "raise" THEN Become("died", "", "", wire, 0, ncmd, data_socket)
    ELSE CASE cont = "pasv" ->
                IF r.code = 227
                THEN Send("RETR", verb, "start", wire, "open")
                ELSE Prompt(wire, data_socket)
           [] cont = "start" ->
                IF r.code \in {125, 150}
                THEN Become("transfer", verb, "", wire, owed, ncmd, data_socket)
                ELSE Prompt(wire, "closed")
           [] OTHER -> Prompt(wire, data_socket)

\* myftp_justin.py: every cmd_ function catches Exception, reports it and
\* returns (lines 119, 151), the data socket left as it is; quitFTP (lines
\* 201-216) passes over it.
\*   cmd_cd 113-118, modePASV 59-76 and then line 128,
\*   cmd_get 129-135 and 145-150
justin_goes_on(r, wire) ==
    IF cont = "quit" THEN Become("ended", "", "", wire, 0, ncmd, data_socket)
    ELSE IF r.kind = "raise" THEN Prompt(wire, data_socket)
    ELSE CASE cont = "pasv" ->
                IF r.code = 227
                THEN Send("RETR", verb, "start", wire, "open")
                ELSE Prompt(wire, data_socket)
           [] cont = "start" ->
                IF r.code \in {125, 150}
                THEN Become("transfer", verb, "", wire, owed, ncmd, data_socket)
                ELSE Prompt(wire, "closed")
           [] OTHER -> Prompt(wire, data_socket)

\* one _read_reply of SimpleFTP or of myftp_justin.py, and what follows it
read_reply ==
    /\ fpc = "read"
    /\ variant \in {"SimpleFTP", "justin"}
    /\ LineReady
    /\ LET textline == ReadLine
           wire == SubSeq(ctrl, Len(textline) + 1, Len(ctrl))
           r == IF variant = "SimpleFTP" THEN SimpleFTP_read_reply(textline)
                ELSE justin_read_reply(textline)
       IN  /\ consumed' = consumed \cup Tags(textline)
           /\ returned' = IF r.kind = "ok" /\ cont # "final"
                          THEN returned \cup {<<ncmd, r.of>>}
                          ELSE returned
           /\ IF variant = "SimpleFTP" THEN SimpleFTP_goes_on(r, wire)
              ELSE justin_goes_on(r, wire)
    /\ UNCHANGED <<variant, server_open, nuser>>
    /\ UNCHANGED outside_ftp

\* do_get, lines 148-157: open() or ds.recv raising is caught nowhere and
\* ends the program before ds.close()
do_get ==
    /\ fpc = "transfer"
    /\ variant = "SimpleFTP"
    /\ \E outcome \in {"complete", "open_fails", "socket_error"} :
          IF outcome = "complete"
          THEN Become("read", verb, "final", ctrl \o Completion(outcome),
                      0, ncmd, "closed")
          ELSE Become("died", "", "", ctrl \o Completion(outcome),
                      0, ncmd, data_socket)
    /\ UNCHANGED <<variant, server_open, nuser, consumed, returned>>
    /\ UNCHANGED outside_ftp

\* cmd_get, lines 135-144 and 151-152: open() or data.recv raising is
\* reported and the function returns without data.close()
cmd_get ==
    /\ fpc = "transfer"
    /\ variant = "justin"
    /\ \E outcome \in {"complete", "open_fails", "socket_error"} :
          IF outcome = "complete"
          THEN Become("read", verb, "final", ctrl \o Completion(outcome),
                      0, ncmd, "closed")
          ELSE Prompt(ctrl \o Completion(outcome), data_socket)
    /\ UNCHANGED <<variant, server_open, nuser, consumed, returned>>
    /\ UNCHANGED outside_ftp

FtpNext ==
    \/ run_connection
    \/ receive_response
    \/ FTPClient_transfer
    \/ loop
    \/ repl
    \/ read_reply
    \/ do_get
    \/ cmd_get
    \/ ServerCloses

(***************************************************************************)
(* The CryptoServer ("3_Cryptography/server.py"): start accepts            *)
(* connections and runs handle_client for each in a thread of its own.     *)
(* The threads share client_public_keys alone; a command of handle_client  *)
(* touches it once (the store of line 85, the lookup of line 118), so a    *)
(* step is one pass of the while loop of one thread.  A session is the     *)
(* record of the locals of its handle_client call and of what was sent to  *)
(* its client; the key pair of the client of session s is key s.           *)
(***************************************************************************)
\* the address and port a client connects from; a port is free again once
\* the connection that had it is closed
Addresses == {"127.0.0.1:50001", "127.0.0.1:50002"}

\* the variables no step of the CryptoServer changes
outside_crypto == <<dns_vars, step_vars, ftp_vars>>

Commands == {"connect", "tunnel", "post", "exit", "", "hello"}

\* a dict with one more key set (d[key] = value)
Store(d, key, value) ==
    [a \in DOMAIN d \cup {key} |-> IF a = key THEN value ELSE d[a]]

\* lines 136-139: the finally of handle_client
Finally(sess) ==
    [sess EXCEPT !.st = "ended",
                 !.control = "closed",
                 !.data_socket = IF @ = "open" THEN "closed" ELSE @]

\* a command served and the loop goes on
Served(sess, keys) == [session |-> sess, keys |-> keys]

\* an exception (line 134) or a break, then the finally
Ends(sess, keys) == [session |-> Finally(sess), keys |-> keys]

\* lines 62-75: the data socket, the port sent, the data connection accepted
\* (ok: socket, bind and listen succeed)
connect(sess, keys, ok) ==
    IF ~ok THEN Ends(sess, keys)
    ELSE Served([sess EXCEPT !.data_socket = "open",
                             !.out = @ \cup {[what |-> "port", key |-> 0]},
                             !.data_conn = TRUE],
                keys)

\* the name data_conn read before any assignment stays bound
tunnel_unbound_ok(sess, keys, ok) ==
    IF ~ok THEN Ends(sess, keys)
    ELSE Served([sess EXCEPT !.out = @ \cup {[what |-> "key", key |-> 0]},
                             !.supplied = sess.me],
                Store(keys, sess.client_id, sess.me))

\* lines 77-93: data_conn.recv raises UnboundLocalError when no connect has
\* bound data_conn; load_pem_public_key raises on what is no key (~ok);
\* else the key is stored under client_id and the server's key is sent
tunnel(sess, keys, ok) ==
    IF ~sess.data_conn \/ ~ok THEN Ends(sess, keys)
    ELSE Served([sess EXCEPT !.out = @ \cup {[what |-> "key", key |-> 0]},
                             !.supplied = sess.me],
                Store(keys, sess.client_id, sess.me))

\* lines 95-129: data_conn.recv raises UnboundLocalError when no connect has
\* bound data_conn; private_key.decrypt raises on what was not encrypted
\* for the server (~ok); client_public_keys[client_id] raises KeyError when
\* nothing is stored under client_id; else the hash goes out encrypted with
\* the key stored there
post(sess, keys, ok) ==
    IF ~sess.data_conn \/ ~ok \/ sess.client_id \notin DOMAIN keys
    THEN Ends(sess, keys)
    ELSE Served([sess EXCEPT !.out = @ \cup
                    {[what |-> "hash", key |-> keys[sess.client_id]]}],
                keys)

\* lines 55-132: one pass of the while loop for the command received ('' is
\* recv returning b'': the client has closed)
handle_command(sess, keys, command, ok) ==
    CASE command = "" -> Ends(sess, keys)
      [] command = "connect" -> connect(sess, keys, ok)
      [] command = "tunnel" -> tunnel(sess, keys, ok)
      [] command = "post" -> post(sess, keys, ok)
      [] command = "exit" -> Ends(sess, keys)
      [] OTHER -> Served(sess, keys)

CryptoInit == CryptoIdle

\* CryptoServer.start, lines 40-47: the next connection is accepted and its thread
\* started.  Its address is one no open connection has.
CryptoServer_start ==
    \E s \in Sessions, address \in Addresses :
        /\ sessions[s].st = "unborn"
        /\ \A r \in Sessions : r < s => sessions[r].st # "unborn"
        /\ \A r \in Sessions :
              sessions[r].st = "running" => sessions[r].client_id # address
        /\ sessions' = [sessions EXCEPT ![s] =
              [NoSession EXCEPT !.st = "running",
                                !.client_id = address,
                                !.control = "open",
                                !.me = s]]
        /\ UNCHANGED client_public_keys
        /\ UNCHANGED outside_crypto

\* handle_client: the thread of session s receives a command and carries it
\* out
handle_client ==
    \E s \in Sessions, command \in Commands, ok \in BOOLEAN :
        /\ sessions[s].st = "running"
        /\ sessions[s].requests < MaxRequests
        /\ LET early == command \in {"tunnel", "post"} /\ ~sessions[s].connected
               before == [sessions[s] EXCEPT
                             !.requests = @ + 1,
                             !.premature = @ \/ early,
                             !.connected = @ \/ command = "connect"]
               result == handle_command(before, client_public_keys, command, ok)
           IN  /\ sessions' = [sessions EXCEPT ![s] = result.session]
               /\ client_public_keys' = result.keys
        /\ UNCHANGED outside_crypto

CryptoNext ==
    \/ CryptoServer_start
    \/ handle_client

(***************************************************************************)
(* Specifications                                                          *)
(***************************************************************************)
\* one call of iterative_dns_lookup against any behaviour of the servers
Init ==
    /\ EngineInit
    /\ cpc = "idle"
    /\ transaction_id = 0
    /\ packet = None
    /\ decoded = None
    /\ Idle
    /\ Single
    /\ StepIdle
    /\ FtpIdle
    /\ CryptoIdle

Next == EngineNext

Spec == Init /\ [][Next]_vars

\* the codec alone; no lookup runs
InitCodec ==
    /\ CodecInit
    /\ pc = "Idle"
    /\ current_server = <<>>
    /\ response = None
    /\ queried = <<>>
    /\ replies = <<>>
    /\ printed = <<>>
    /\ failure = ""
    /\ open_socks = 0
    /\ visited = <<>>
    /\ sent = <<>>
    /\ Idle
    /\ Single
    /\ StepIdle
    /\ FtpIdle
    /\ CryptoIdle

NextCodec == CodecNext

SpecCodec == InitCodec /\ [][NextCodec]_vars

\* the decoder alone; no lookup runs
InitDecode ==
    /\ DecodeInit
    /\ pc = "Idle"
    /\ current_server = <<>>
    /\ response = None
    /\ queried = <<>>
    /\ replies = <<>>
    /\ printed = <<>>
    /\ failure = ""
    /\ open_socks = 0
    /\ visited = <<>>
    /\ sent = <<>>
    /\ domain = example_com
    /\ transaction_id \in QueryIds(buffer)
    /\ packet = None
    /\ decoded = None
    /\ cpc = "idle"
    /\ Single
    /\ StepIdle
    /\ FtpIdle
    /\ CryptoIdle

NextDecode == DecodeNext

SpecDecode == InitDecode /\ [][NextDecode]_vars

\* two calls of iterative_dns_lookup, interleaved in any order
InitPair ==
    /\ PairInit
    /\ cpc = "idle"
    /\ transaction_id = 0
    /\ packet = None
    /\ decoded = None
    /\ Idle
    /\ StepIdle
    /\ FtpIdle
    /\ CryptoIdle

NextPair == PairNext

SpecPair == InitPair /\ [][NextPair]_vars

\* parse_response step by step on one buffer; a call that is running goes on
\* running
InitSteps ==
    /\ StepInit
    /\ pc = "Idle"
    /\ current_server = <<>>
    /\ response = None
    /\ queried = <<>>
    /\ replies = <<>>
    /\ printed = <<>>
    /\ failure = ""
    /\ open_socks = 0
    /\ visited = <<>>
    /\ sent = <<>>
    /\ domain = example_com
    /\ transaction_id = 0
    /\ packet = None
    /\ decoded = None
    /\ cpc = "idle"
    /\ start = 0
    /\ parsed_name = None
    /\ skipped = None
    /\ parsed_message = None
    /\ bpc = "idle"
    /\ calls = <<>>
    /\ Single
    /\ FtpIdle
    /\ CryptoIdle

NextSteps == StepNext

SpecSteps == InitSteps /\ [][NextSteps]_vars /\ WF_vars(NextSteps)


\* a session of one of the FTP clients, after login, against any behaviour
\* of the server and of the local files
InitFtp ==
    /\ FtpInit
    /\ pc = "Idle"
    /\ current_server = <<>>
    /\ response = None
    /\ queried = <<>>
    /\ replies = <<>>
    /\ printed = <<>>
    /\ failure = ""
    /\ open_socks = 0
    /\ visited = <<>>
    /\ sent = <<>>
    /\ domain = example_com
    /\ transaction_id = 0
    /\ packet = None
    /\ decoded = None
    /\ cpc = "idle"
    /\ Idle
    /\ Single
    /\ StepIdle
    /\ CryptoIdle

NextFtp == FtpNext

SpecFtp == InitFtp /\ [][NextFtp]_vars

\* the CryptoServer and its client threads, interleaved in any order
InitCrypto ==
    /\ CryptoInit
    /\ pc = "Idle"
    /\ current_server = <<>>
    /\ response = None
    /\ queried = <<>>
    /\ replies = <<>>
    /\ printed = <<>>
    /\ failure = ""
    /\ open_socks = 0
    /\ visited = <<>>
    /\ sent = <<>>
    /\ domain = example_com
    /\ transaction_id = 0
    /\ packet = None
    /\ decoded = None
    /\ cpc = "idle"
    /\ Idle
    /\ Single
    /\ StepIdle
    /\ FtpIdle

NextCrypto == CryptoNext

SpecCrypto == InitCrypto /\ [][NextCrypto]_vars

(***************************************************************************)
(* Properties of the lookup loop (Spec)                                    *)
(***************************************************************************)
Last(seq) == seq[Len(seq)]

\* the type-A records of a section, in section order
TypeA(records) == SelectSeq(records, LAMBDA r : r.type = 1)

\* the addresses printed in the answers section by the last display_response
AnswerValues(lines) ==
    LET an == SelectSeq(lines, LAMBDA l : l.section = "answer")
    IN  [i \in 1..Len(an) |-> an[i].value]

\* The last exchange brought a datagram that parse_response decoded into
\* `response`, and the loop has acted on it; no later query has been sent.
JustDecided ==
    /\ response # None
    /\ Len(replies) = Len(queried)
    /\ pc # "Looping"

\* C1 (answer priority): whenever the decoded response of a step has a type-A
\* record in its answers section, the step ends in HaveAnswer (return True)
\* with the first such record's address, whatever authorities and additionals
\* hold, and no further server is queried.
C1_AnswerPriority ==
    (JustDecided /\ TypeA(response.answers) # <<>>) =>
        /\ pc = "HaveAnswer"
        /\ HasKey(TypeA(response.answers)[1], "ip")
        /\ AnswerValues(printed) # <<>>
        /\ AnswerValues(printed)[1] = TypeA(response.answers)[1].ip
        /\ ~ENABLED SendQuery

\* the positions in additionals of the A records named like the nameserver
\* of authority record i
GlueOf(resp, i) ==
    {j \in 1..Len(resp.additionals) :
        /\ resp.additionals[j].type = 1
        /\ resp.additionals[j].name = resp.authorities[i].nameserver}

\* the NS records of the authority section that have glue, by position
NsWithGlue(resp) ==
    {i \in 1..Len(resp.authorities) :
        resp.authorities[i].type = 2 /\ GlueOf(resp, i) # {}}

SetMin(S) == CHOOSE x \in S : \A y \in S : x <= y

\* C2 (referral precedence): with no A answer, the next server is the address
\* of the first additional A record named like the earliest NS name, in
\* authority order, that has a name-matching A record in additionals.
C2_ReferralPrecedence ==
    (JustDecided /\ TypeA(response.answers) = <<>> /\ NsWithGlue(response) # {}) =>
        LET glue == response.additionals[
                        SetMin(GlueOf(response, SetMin(NsWithGlue(response))))]
        IN  /\ pc = "Querying"
            /\ HasKey(glue, "ip")
            /\ current_server = glue.ip

\* C3 (glue fallback): with no A answer and no additional A record named like
\* any collected NS name, the next server is the address of the first A
\* record of additionals.
C3_GlueFallback ==
    (/\ JustDecided
     /\ TypeA(response.answers) = <<>>
     /\ NsWithGlue(response) = {}
     /\ TypeA(response.additionals) # <<>>) =>
        /\ pc = "Querying"
        /\ HasKey(TypeA(response.additionals)[1], "ip")
        /\ current_server = TypeA(response.additionals)[1].ip

\* C4 (NoReferral): a response with no A answer and no A record at all in
\* additionals ends the lookup in failure ("Could not find next DNS server")
\* and no further query is sent, whatever NS names the authorities hold.
C4_NoReferral ==
    (/\ JustDecided
     /\ TypeA(response.answers) = <<>>
     /\ TypeA(response.additionals) = <<>>) =>
        /\ pc = "Failed"
        /\ failure = "no next server"
        /\ current_server = Last(queried)
        /\ ~ENABLED SendQuery

\* C4's case: the lookup failed on a response that names a nameserver in an
\* NS record and has additional records, none of them of type A
C4_Witness ==
    /\ JustDecided
    /\ pc = "Failed"
    /\ TypeA(response.answers) = <<>>
    /\ TypeA(response.additionals) = <<>>
    /\ response.additionals # <<>>
    /\ \E i \in 1..Len(response.authorities) : response.authorities[i].type = 2

\* the hop bound of C5; the code has no such parameter, so any value below
\* the depth explored stands for it
max_steps == MaxHops - 1

\* C5 (hop bound): a lookup performs at most max_steps server hops.
C5_HopBound == Len(queried) <= max_steps

\* C6 (transport failure is terminal): an exchange that timed out or failed
\* with an I/O error is the last one of the lookup, which has returned False;
\* no server, the same or another, is queried after it.
C6_TransportFailureTerminal ==
    \A i \in 1..Len(replies) :
        replies[i] \in {"timeout", "ioerror"} =>
            /\ i = Len(replies)
            /\ Len(queried) <= i
            /\ pc = "Failed"
            /\ response = None
            /\ failure \in {"timeout", "error"}
            /\ ~ENABLED SendQuery

\* C6's case: the second server, reached by a referral, timed out
C6_Witness ==
    /\ Len(replies) = 2
    /\ replies[2] = "timeout"
    /\ Len(queried) = 2
    /\ queried[2] # queried[1]
    /\ pc = "Failed"

\* what display_response printed for the response before exchange i
PrintedBefore(i) ==
    IF i = 1 THEN <<>> ELSE display_response(Decoded[replies[i - 1]]).lines

\* C7 (no action on partial decode): when parse_response raises, wherever in
\* the message, the lookup returns False: nothing of the message is kept as
\* the response, displayed, taken as an answer or used as the next server.
C7_NoPartialDecode ==
    \A i \in 1..Len(replies) :
        (replies[i] \in DatagramKeys /\ Decoded[replies[i]].kind = "raise") =>
            /\ i = Len(replies)
            /\ Len(queried) = i
            /\ pc = "Failed"
            /\ failure = "error"
            /\ response = None
            /\ current_server = queried[i]
            /\ printed = PrintedBefore(i)
            /\ ~ENABLED SendQuery

\* C7's case: parse_response raised after it had decoded a type-A answer
\* record, and the lookup has returned
C7_Witness ==
    /\ replies # <<>>
    /\ Last(replies) \in DatagramKeys
    /\ Decoded[Last(replies)].kind = "raise"
    /\ TypeA(Decoded[Last(replies)].answers) # <<>>
    /\ pc = "Failed"

\* C8 (two-step scenario): the root answers with authorities
\* [NS a.iana-servers.net] and additionals [A a.iana-servers.net ->
\* 199.43.135.53], and 199.43.135.53 answers [A example.com -> 93.184.216.34]:
\* the lookup queries the root, then 199.43.135.53, and succeeds with
\* 93.184.216.34 after these two steps.
C8_TwoStepScenario ==
    (Len(replies) >= 1 /\ replies[1] = "referral_iana") =>
        /\ queried[1] = root_dns_ip
        /\ (Len(replies) = 1 /\ Len(queried) = 1 =>
                pc = "Querying" /\ current_server = ip_199_43_135_53)
        /\ (Len(queried) >= 2 => queried[2] = ip_199_43_135_53)
        /\ (Len(replies) >= 2 /\ replies[2] = "answer" =>
                /\ pc = "HaveAnswer"
                /\ queried = <<root_dns_ip, ip_199_43_135_53>>
                /\ Len(replies) = 2
                /\ AnswerValues(printed) = <<ip_93_184_216_34>>
                /\ ~ENABLED SendQuery)

\* C8's case: the scenario has run to its end
C8_Witness ==
    /\ replies = <<"referral_iana", "answer">>
    /\ pc = "HaveAnswer"

\* C9 (single terminal outcome): a lookup that has stopped has returned True
\* or False; it is never ended by an exception.
C9_SingleTerminalOutcome ==
    pc \in {"Querying", "Waiting", "Looping", "HaveAnswer", "Failed"}

(***************************************************************************)
(* Properties of the codec (SpecCodec)                                     *)
(***************************************************************************)
\* a domain name of non-empty ASCII labels of at most 63 bytes
ValidName(d) ==
    \A k \in 1..Len(Split(d)) :
        /\ Len(Split(d)[k]) \in 1..63
        /\ \A i \in 1..Len(Split(d)[k]) : Split(d)[k][i] < 128

\* C10 (name round trip): for a valid domain name, build_query succeeds and
\* the name read back at offset 12 of its bytes is the domain itself, byte
\* for byte (labels, dots and case), ending right before qtype and qclass.
C10_NameRoundTrip ==
    ValidName(domain) =>
        /\ (cpc # "start" => packet.kind = "ok")
        /\ (cpc = "parsed" =>
                /\ decoded.kind = "ok"
                /\ decoded.name = domain
                /\ Split(decoded.name) = Split(domain)
                /\ decoded.offset = Len(packet.bytes) - 4)

\* C10's case: a name of two labels, one in mixed case and one of 63 bytes,
\* has been encoded and read back
C10_Witness ==
    /\ cpc = "parsed"
    /\ ValidName(domain)
    /\ Len(Split(domain)) = 2
    /\ Len(Split(domain)[2]) = 63
    /\ 66 \in {domain[i] : i \in 1..Len(domain)}
    /\ decoded.kind = "ok"

\* every datagram sent went to port 53 of the server of its pass of the loop
SentToCurrentServer ==
    \A i \in 1..Len(sent) :
        /\ sent[i].port = 53
        /\ sent[i].step \in 1..Len(visited)
        /\ sent[i].server = visited[sent[i].step]

\* no pass of the loop sent two datagrams
NoSecondDatagram ==
    \A i, j \in 1..Len(sent) : sent[i].step = sent[j].step => i = j

\* at most one exchange has ended (a datagram, a timeout or an error) for
\* each pass, and none yet for the pass that waits in recvfrom
AtMostOneResponse ==
    /\ Len(replies) <= Len(visited)
    /\ pc = "Waiting" => Len(replies) = Len(sent) - 1

\* C17 as stated: every pass of the loop sends exactly one datagram, so as
\* many datagrams are sent as servers are visited.
C17_ExactlyOneDatagramPerStep ==
    /\ SentToCurrentServer
    /\ NoSecondDatagram
    /\ AtMostOneResponse
    /\ Len(sent) = Len(visited)

\* C17 (one exchange per step), amended: every pass of the loop sends at
\* most one datagram, to port 53 of the current server, and receives at
\* most one response before the next decision; it sends none only when
\* building the query or sendto raises, and the lookup then returns False:
\* the datagrams sent are as many as the servers visited, or one fewer when
\* the last pass failed before sending.
C17_OneExchangePerStep ==
    /\ SentToCurrentServer
    /\ NoSecondDatagram
    /\ AtMostOneResponse
    /\ Len(sent) <= Len(visited)
    /\ Len(visited) <= Len(sent) + 1
    /\ Len(visited) = Len(sent) + 1 =>
          /\ pc = "Failed"
          /\ response = None
          /\ failure = "error"
    /\ \A i \in 1..Len(sent) : sent[i].step = i

\* the first server referred to a second one, and sendto to that one raised
C17_Witness ==
    /\ Len(visited) = 2
    /\ Len(sent) = 1
    /\ visited[2] # visited[1]
    /\ pc = "Failed"

\* what lines 343-360 decide for a response when line 340 (the call of
\* display_response) is left out: the position reached and the next server
Untraced(resp) ==
    LET next_server == get_next_server(resp)
    IN  IF has_answer(resp) THEN [pc |-> "HaveAnswer"]
        ELSE IF next_server.kind = "raise" THEN [pc |-> "Crashed"]
        ELSE IF next_server = None THEN [pc |-> "Failed"]
        ELSE [pc |-> "Querying", current_server |-> next_server.ip]

\* what the loop decides for what query_dns_server returned: False on None,
\* an uncaught exception of display_response, or the decision of lines 343-360
Decision(result) ==
    IF result = None THEN [pc |-> "Failed"]
    ELSE IF display_response(result).kind = "raise" THEN [pc |-> "Crashed"]
    ELSE Untraced(result)

\* C18 (the step trace is outcome-neutral): whatever response a step
\* received, the lookup that displays it decides as the lookup without the
\* display would: the same outcome, or the same next server.
C18_TraceOutcomeNeutral ==
    JustDecided =>
        /\ pc = Untraced(response).pc
        /\ pc = "Querying" => current_server = Untraced(response).current_server

\* C21 (transport handle release): whenever no query step is in progress
\* (none begun yet, or the last one has returned), every UDP socket a step
\* created has been closed.
C21_SocketReleased ==
    pc \in {"Querying", "HaveAnswer", "Failed", "Crashed"} => open_socks = 0

\* names a and b differ, but only in letter case
CaseVariants(a, b) == a # b /\ LowerCase(a) = LowerCase(b)

\* the response holds an additional A record named like an NS name of the
\* authorities but for letter case
HasCaseVariantGlue(resp) ==
    \E i \in 1..Len(resp.authorities), j \in 1..Len(resp.additionals) :
        /\ resp.authorities[i].type = 2
        /\ resp.additionals[j].type = 1
        /\ CaseVariants(resp.additionals[j].name, resp.authorities[i].nameserver)

\* C22 (case-sensitive glue matching): when a step chooses a next server,
\* it is the address of the first additional A record whose name is
\* byte for byte the earliest NS name that has such a record; an A record
\* whose name differs from the NS names only in letter case is no match:
\* with no identical name the first A record of additionals is chosen.
C22_CaseSensitiveGlue ==
    JustDecided /\ pc = "Querying" =>
        IF NsWithGlue(response) # {}
        THEN current_server =
                 response.additionals[
                     SetMin(GlueOf(response, SetMin(NsWithGlue(response))))].ip
        ELSE /\ TypeA(response.additionals) # <<>>
             /\ current_server = TypeA(response.additionals)[1].ip

\* authorities [NS ns1.example.com], additionals [A glue.example.net ->
\* 199.43.135.53, A NS1.EXAMPLE.COM -> 8.8.8.8]: the fallback was taken
C22_Witness ==
    /\ JustDecided /\ pc = "Querying"
    /\ HasCaseVariantGlue(response)
    /\ NsWithGlue(response) = {}
    /\ current_server = ip_199_43_135_53

\* resp as it would be had the server sent no answer records
WithoutAnswers(resp) == [resp EXCEPT !.answers = <<>>, !.answer_count = 0]

\* C26 (non-address answers): when the decoded response of a step has answer
\* records but none of type A, the step does not end in HaveAnswer, and it
\* ends as the step on the same response without its answer records ends:
\* the same outcome, or the same next server chosen from authorities and
\* additionals.
C26_NonAddressAnswers ==
    (JustDecided /\ response.answers # <<>> /\ TypeA(response.answers) = <<>>) =>
        /\ pc # "HaveAnswer"
        /\ pc = Decision(WithoutAnswers(response)).pc
        /\ pc = "Querying" =>
              current_server = Decision(WithoutAnswers(response)).current_server

\* an NS record for ns1 in the answers: the next server is the glue of the
\* authority section's ns2
C26_Witness ==
    /\ JustDecided
    /\ response = Decoded["ns_in_answers"]
    /\ response.answers[1].type = 2
    /\ pc = "Querying"
    /\ current_server = ip_9_9_9_9

\* the addresses of the type-A records of the additional section of resp
AdditionalAddresses(resp) ==
    {resp.additionals[j].ip :
        j \in {n \in 1..Len(resp.additionals) :
                  /\ resp.additionals[n].type = 1
                  /\ HasKey(resp.additionals[n], "ip")}}

\* C31 (origin of every hop): the server of every pass of the loop after the
\* first, and the server chosen for the next pass, is the address of a
\* type-A record of the additional section of the response decoded in the
\* pass just before it.
C31_HopOrigin ==
    /\ \A i \in 2..Len(visited) :
          /\ replies[i - 1] \in DatagramKeys
          /\ Decoded[replies[i - 1]].kind = "ok"
          /\ visited[i] \in AdditionalAddresses(Decoded[replies[i - 1]])
    /\ (pc = "Querying" /\ replies # <<>> /\ Len(replies) = Len(visited)) =>
          /\ Last(replies) \in DatagramKeys
          /\ current_server \in AdditionalAddresses(Decoded[Last(replies)])

\* three passes: the second server is from the first response alone, the
\* third from the second response alone, and neither response holds it in
\* its answers or authorities
C31_Witness ==
    /\ Len(visited) = 3
    /\ replies[1] = "referral_iana"
    /\ replies[2] = "cname_only"
    /\ visited = <<root_dns_ip, ip_199_43_135_53, ip_8_8_8_8>>
    /\ ip_8_8_8_8 \notin AdditionalAddresses(Decoded["referral_iana"])
    /\ ip_199_43_135_53 \notin AdditionalAddresses(Decoded["cname_only"])

\* every type-A record of the list has rdlength 4 and carries an address
WellFormedA(records) ==
    \A i \in 1..Len(records) :
        records[i].type = 1 =>
            records[i].rdlength = 4 /\ HasKey(records[i], "ip")

\* C33 (success implies well-formed A records): when the lookup has returned
\* True, or has chosen a next server, on a decoded response, every type-A
\* record of the answers and of the additionals of that response has
\* rdlength 4 and carries an address.
C33_SuccessWellFormed ==
    (JustDecided /\ pc \in {"HaveAnswer", "Querying"}) =>
        /\ WellFormedA(response.answers)
        /\ WellFormedA(response.additionals)

\* the lookup returned True on a response with A records in its answers and
\* in its additionals
C33_Witness ==
    /\ JustDecided
    /\ pc = "HaveAnswer"
    /\ response = Decoded["answer_populated"]
    /\ TypeA(response.answers) # <<>>
    /\ TypeA(response.additionals) # <<>>

(***************************************************************************)
(* Claims about the query (SpecCodec)                                      *)
(***************************************************************************)
\* the number of bytes of d after position i and before the next dot: the
\* length of the label that starts after position i
LabelRun(d, i) ==
    SetMin({j \in i..Len(d) : j = Len(d) \/ d[j + 1] = 46}) - i

\* the question name of d, byte by byte: the length of the first label,
\* then d with every dot replaced by the length of the label after it, then
\* the zero terminator
QuestionName(d) ==
    [i \in 1..(Len(d) + 2) |->
        IF i = 1 THEN LabelRun(d, 0)
        ELSE IF i = Len(d) + 2 THEN 0
        ELSE IF d[i - 1] = 46 THEN LabelRun(d, i - 1)
        ELSE d[i - 1]]

\* the whole query for domain d and transaction id t
QueryLayout(d, t) ==
    <<t \div 256, t % 256, 0, 0, 0, 1, 0, 0, 0, 0, 0, 0>>
    \o QuestionName(d) \o <<0, 1, 0, 1>>

\* a character no ASCII encoding exists for, or a label whose length does
\* not fit the length byte
Unencodable(d) ==
    \/ \E i \in 1..Len(d) : d[i] >= 128
    \/ \E i \in 0..Len(d) : (i = 0 \/ d[i] = 46) /\ LabelRun(d, i) > 255

\* C15 (query layout): build_query returns the 12-byte header (id, flags
\* 0x0000, one question, no records) followed by one question: the labels
\* of the domain in order, each after its length, the zero terminator,
\* qtype 1 and qclass 1.  Another transaction id changes the first two
\* bytes and nothing else.  It returns for every valid name (it raises only
\* on a non-ASCII character or a label of more than 255 bytes).
C15_QueryLayout ==
    cpc # "start" =>
        /\ packet.kind = "ok" => packet.bytes = QueryLayout(domain, transaction_id)
        /\ packet.kind = "ok" =>
              \A t \in TxIds :
                  /\ build_query(domain, t).kind = "ok"
                  /\ SubSeq(build_query(domain, t).bytes, 3, Len(packet.bytes))
                       = SubSeq(packet.bytes, 3, Len(packet.bytes))
                  /\ SubSeq(build_query(domain, t).bytes, 1, 2) = <<t \div 256, t % 256>>
        /\ packet.kind # "ok" <=> Unencodable(domain)
        /\ ValidName(domain) => packet.kind = "ok"

\* the query for example.com with transaction id 0xC00C
C15_Witness ==
    /\ cpc = "built"
    /\ domain = example_com
    /\ transaction_id = 49164
    /\ packet.kind = "ok"
    /\ Len(packet.bytes) = 29

\* the domain is empty, or one of its labels is empty or longer than 63 bytes
MalformedName(d) ==
    \E i \in 0..Len(d) :
        /\ i = 0 \/ d[i] = 46
        /\ LabelRun(d, i) = 0 \/ LabelRun(d, i) > 63

\* C20 (name validation on encode): for an empty domain, or one with a
\* label that is empty or longer than 63 bytes, build_query fails and
\* produces no query bytes.
C20_NameValidation ==
    cpc # "start" /\ MalformedName(domain) => packet.kind = "raise"

(***************************************************************************)
(* Claims about the decoder (SpecDecode)                                   *)
(***************************************************************************)
NameParsed == bpc \in {"named", "skipped"}

RECURSIVE LiteralNameAt(_, _)
\* a name written out in full at offset o of d: labels of 1 to 63 bytes up
\* to a zero byte, all inside d
LiteralNameAt(d, o) ==
    /\ o < Len(d)
    /\ \/ d[o + 1] = 0
       \/ /\ d[o + 1] \in 1..63
          /\ LiteralNameAt(d, o + 1 + d[o + 1])

\* the two bytes at offset o of d are a compression pointer
PointerAt(d, o) == o + 2 <= Len(d) /\ d[o + 1] >= 192

\* the offset a pointer at offset o of d refers to: the low 14 bits
TargetOf(d, o) == (d[o + 1] % 64) * 256 + d[o + 2]

\* the name read is only a pointer to a name written out in full before it
PointerToEarlierName ==
    /\ PointerAt(buffer, start)
    /\ TargetOf(buffer, start) < start
    /\ LiteralNameAt(buffer, TargetOf(buffer, start))

\* C11 (compression correctness): a name that is only a compression pointer
\* to an earlier name written out in full decodes to the same dotted string
\* as that earlier name.
C11_CompressionCorrectness ==
    NameParsed /\ PointerToEarlierName
    => /\ parsed_name.kind = "ok"
       /\ parse_domain_name(buffer, TargetOf(buffer, start)).kind = "ok"
       /\ parsed_name.name = parse_domain_name(buffer, TargetOf(buffer, start)).name

\* the owner name of the first authority record of the compressed referral
C11_Witness ==
    /\ NameParsed /\ PointerToEarlierName
    /\ buffer = Datagrams["compressed_referral"]
    /\ parsed_name.kind = "ok"
    /\ parsed_name.name = example_com

RECURSIVE FirstStop(_, _)
\* walking the labels written from offset o of d: the offset of the first
\* byte that is a zero or a pointer marker, -1 when d ends before one
FirstStop(d, o) ==
    IF o >= Len(d) THEN -1
    ELSE IF d[o + 1] = 0 \/ d[o + 1] >= 192 THEN o
    ELSE FirstStop(d, o + 1 + d[o + 1])

\* C12 (resume offset): when decoding a name returns, the offset handed back
\* is 2 bytes past the first pointer met, wherever the chain of pointers
\* ends, and just past the zero terminator when no pointer was met.
C12_ResumeOffset ==
    NameParsed /\ parsed_name.kind = "ok"
    => LET p == FirstStop(buffer, start)
       IN  /\ p >= 0
           /\ parsed_name.offset = IF buffer[p + 1] = 0 THEN p + 1 ELSE p + 2

\* "b" then a pointer to a pointer that leads to "a" (offset 5 of
\* chained_names): two pointers met, the chain ends at offset 3
C12_Witness ==
    /\ NameParsed
    /\ buffer = chained_names
    /\ start = 5
    /\ parsed_name = [kind |-> "ok", name |-> <<98, 46, 97>>, offset |-> 9]

\* the name read at offset o of d is a pointer to itself, or a pointer to a
\* later pointer that leads back to it
PointerCycle(d, o) ==
    /\ PointerAt(d, o)
    /\ \/ TargetOf(d, o) = o
       \/ /\ TargetOf(d, o) > o
          /\ PointerAt(d, TargetOf(d, o))
          /\ TargetOf(d, TargetOf(d, o)) = o

\* C13 (cycle safety): decoding a name whose pointer refers to itself, or
\* to a later pointer that leads back, ends with a CompressionLoop failure:
\* it neither goes on forever nor ends with another exception.
C13_CycleSafety ==
    NameParsed /\ PointerCycle(buffer, start)
    => parsed_name.kind = "raise" /\ parsed_name.exc = "CompressionLoop"

\* the offset just past the name written at offset o of d (a pointer ends
\* it), -1 when d ends first
NameEnd(d, o) ==
    LET p == FirstStop(d, o)
    IN  IF p < 0 THEN -1
        ELSE IF d[p + 1] = 0 THEN p + 1
        ELSE IF p + 2 <= Len(d) THEN p + 2 ELSE -1

\* the offset just past the record at offset o of d: its name, the 10 bytes
\* of type, class, ttl and rdlength, and rdlength bytes of rdata
RecordEnd(d, o) ==
    LET e == NameEnd(d, o)
    IN  IF e < 0 \/ e + 10 > Len(d) THEN -1
        ELSE LET rdata_end == e + 10 + d[e + 9] * 256 + d[e + 10]
             IN  IF rdata_end > Len(d) THEN -1 ELSE rdata_end

RECURSIVE RecordsEnd(_, _, _)
\* the offset just past n records written one after another from offset o
RecordsEnd(d, o, n) ==
    IF o < 0 \/ n = 0 THEN o ELSE RecordsEnd(d, RecordEnd(d, o), n - 1)

\* d is a whole message: a header, one question and as many records as the
\* three counts of the header say, which fill d to its last byte and decode
WellFormed(d) ==
    /\ Len(d) >= 12
    /\ d[5] * 256 + d[6] = 1
    /\ LET q == NameEnd(d, 12)
           count == (d[7] + d[9] + d[11]) * 256 + d[8] + d[10] + d[12]
       IN  /\ q >= 0 /\ q + 4 <= Len(d)
           /\ RecordsEnd(d, q + 4, count) = Len(d)
    /\ parse_response(d).kind = "ok"

WellFormedKeys == {k \in DatagramKeys : WellFormed(Datagrams[k])}

\* the buffer is a well-formed message with at least its last byte missing
CutShort ==
    \E k \in WellFormedKeys :
        /\ Len(buffer) < Len(Datagrams[k])
        /\ buffer = SubSeq(Datagrams[k], 1, Len(buffer))

\* C14 (truncation safety): a well-formed response cut short at any byte is
\* never decoded into a message: parse_response fails on it.
C14_TruncationSafety ==
    bpc = "parsed" /\ CutShort => parsed_message.kind = "raise"

\* the 16-bit field of d at offset o
FieldAt(d, o) == d[o + 1] * 256 + d[o + 2]

RECURSIVE QuestionsEnd(_, _, _)
\* the offset just past n questions written from offset o of d
QuestionsEnd(d, o, n) ==
    IF n = 0 THEN o ELSE QuestionsEnd(d, NameEnd(d, o) + 4, n - 1)

RECURSIVE RecordStart(_, _)
\* the offset of the i-th record of d (from 1), counted through the three
\* sections: each record starts where the rdata of the one before ends
RecordStart(d, i) ==
    IF i = 1 THEN QuestionsEnd(d, 12, FieldAt(d, 4))
    ELSE LET e == NameEnd(d, RecordStart(d, i - 1))
         IN  e + 10 + FieldAt(d, e + 8)

\* what the message holds, section after section
AllRecords(m) == m.answers \o m.authorities \o m.additionals

\* C16 (section counts): a message parse_response returns holds exactly
\* ancount answers, nscount authorities and arcount additionals (the header
\* fields, which are also the three counts returned), and its records are
\* those found at consecutive positions of the buffer after the questions:
\* the answers first, then the authorities, then the additionals, each
\* section in wire order.
C16_SectionCounts ==
    bpc = "parsed" /\ parsed_message.kind = "ok" =>
        /\ Len(parsed_message.answers) = FieldAt(buffer, 6)
        /\ Len(parsed_message.authorities) = FieldAt(buffer, 8)
        /\ Len(parsed_message.additionals) = FieldAt(buffer, 10)
        /\ parsed_message.answer_count = FieldAt(buffer, 6)
        /\ parsed_message.authority_count = FieldAt(buffer, 8)
        /\ parsed_message.additional_count = FieldAt(buffer, 10)
        /\ \A i \in 1..Len(AllRecords(parsed_message)) :
              LET e == NameEnd(buffer, RecordStart(buffer, i))
                  r == AllRecords(parsed_message)[i]
              IN  /\ e >= 0
                  /\ r.type = FieldAt(buffer, e)
                  /\ r.class = FieldAt(buffer, e + 2)
                  /\ r.ttl = FieldAt(buffer, e + 4) * 65536 + FieldAt(buffer, e + 6)
                  /\ r.rdlength = FieldAt(buffer, e + 8)

\* a response with three answers, one authority and one additional record
C16_Witness ==
    /\ bpc = "parsed"
    /\ parsed_message.kind = "ok"
    /\ buffer = Datagrams["answer_populated"]
    /\ Len(parsed_message.answers) = 3
    /\ Len(parsed_message.authorities) = 1
    /\ Len(parsed_message.additionals) = 1

\* the transaction id written in the first two bytes of datagram d
TxIdOf(d) == d[1] * 256 + d[2]

RdataStart(d, i) == NameEnd(d, RecordStart(d, i)) + 10

\* the four bytes at offset o of d as a dotted quad
DottedQuad(d, o) ==
    Dec(d[o + 1]) \o <<46>> \o Dec(d[o + 2]) \o <<46>> \o Dec(d[o + 3])
    \o <<46>> \o Dec(d[o + 4])

\* the keys every record carries
GenericKeys == {"name", "type", "class", "ttl", "rdlength"}

\* C24 (record interpretation): in a message parse_response returns, a
\* record carries an address exactly when its type is 1 and its rdlength is
\* 4 (the four rdata bytes as a dotted quad) and a nameserver exactly when
\* its type is 2 (the name decoded from the start of its rdata, pointers
\* followed); it carries nothing else beyond name, type, class, ttl and
\* rdlength.
C24_RecordInterpretation ==
    bpc = "parsed" /\ parsed_message.kind = "ok" =>
        \A i \in 1..Len(AllRecords(parsed_message)) :
            LET r == AllRecords(parsed_message)[i]
                rdata == RdataStart(buffer, i)
            IN  /\ HasKey(r, "ip") <=> (r.type = 1 /\ r.rdlength = 4)
                /\ HasKey(r, "nameserver") <=> r.type = 2
                /\ DOMAIN r \subseteq GenericKeys \cup {"ip", "nameserver"}
                /\ GenericKeys \subseteq DOMAIN r
                /\ HasKey(r, "ip") => r.ip = DottedQuad(buffer, rdata)
                /\ HasKey(r, "nameserver") =>
                      /\ parse_domain_name(buffer, rdata).kind = "ok"
                      /\ r.nameserver = parse_domain_name(buffer, rdata).name

\* two NS records, two A records with an address and an A record of 16
\* bytes without one
C24_Witness ==
    /\ bpc = "parsed"
    /\ parsed_message.kind = "ok"
    /\ buffer = Datagrams["glue_then_bad"]
    /\ parsed_message.authorities[1].nameserver = ns1_example_com
    /\ parsed_message.additionals[2].ip = ip_8_8_8_8
    /\ parsed_message.additionals[3].type = 1
    /\ ~HasKey(parsed_message.additionals[3], "ip")

\* C25 (record advance): the record read at the position of the i-th record
\* of a message parse_response returns leaves the offset exactly rdlength
\* bytes after the 10 bytes that follow its name, whatever its type and
\* wherever the name inside an NS rdata ends, and the next record of the
\* message is the one read from there.
C25_RecordAdvance ==
    bpc = "parsed" /\ parsed_message.kind = "ok" =>
        \A i \in 1..Len(AllRecords(parsed_message)) :
            LET o == RecordStart(buffer, i)
                r == ParseRecord(buffer, o)
                next == RdataStart(buffer, i) + FieldAt(buffer, RdataStart(buffer, i) - 2)
            IN  /\ r.kind = "ok"
                /\ r.record = AllRecords(parsed_message)[i]
                /\ r.offset = next
                /\ i < Len(AllRecords(parsed_message)) =>
                      /\ ParseRecord(buffer, next).kind = "ok"
                      /\ ParseRecord(buffer, next).record =
                             AllRecords(parsed_message)[i + 1]

\* an NS record without rdata: its nameserver is read from the 17 bytes of
\* the next record's name, and that record is still read from the NS
\* record's rdata offset
C25_Witness ==
    /\ bpc = "parsed"
    /\ parsed_message.kind = "ok"
    /\ buffer = Datagrams["ns_empty_rdata"]
    /\ parsed_message.authorities[1].rdlength = 0
    /\ parsed_message.authorities[1].nameserver = ns1_example_com
    /\ parse_domain_name(buffer, RdataStart(buffer, 1)).offset =
           RdataStart(buffer, 1) + 17
    /\ ParseRecord(buffer, RecordStart(buffer, 1)).offset = RdataStart(buffer, 1)
    /\ parsed_message.additionals[1].name = ns1_example_com
    /\ parsed_message.additionals[1].ip = ip_9_9_9_9

RECURSIVE LiteralLabels(_, _)
\* the length bytes of the literal labels written from offset o of d, up to
\* the first zero byte or pointer marker (or the end of d)
LiteralLabels(d, o) ==
    IF o >= Len(d) \/ d[o + 1] = 0 \/ d[o + 1] >= 192 THEN <<>>
    ELSE <<d[o + 1]>> \o LiteralLabels(d, o + 1 + d[o + 1])

RECURSIVE LabelBytes(_)
\* the bytes a sequence of labels takes: each its length byte and its bytes
LabelBytes(ls) == IF ls = <<>> THEN 0 ELSE 1 + Head(ls) + LabelBytes(Tail(ls))

\* the offset just past the name written at offset o of d: its literal
\* labels, then 1 byte for a zero or 2 for a pointer
SkipEnd(d, o) ==
    LET stop == o + LabelBytes(LiteralLabels(d, o))
    IN  IF d[stop + 1] = 0 THEN stop + 1 ELSE stop + 2

RECURSIVE QuestionsSkipped(_, _, _)
\* the offset just past n questions written from offset o of d: each a name
\* and 4 bytes
QuestionsSkipped(d, o, n) ==
    IF n = 0 THEN o ELSE QuestionsSkipped(d, SkipEnd(d, o) + 4, n - 1)

\* C27 (skip arithmetic): when skipping a name returns, the literal labels
\* from the start end inside the buffer at a zero byte or a pointer marker,
\* and the offset returned is the start plus 1 + length for each of those
\* labels plus 1 for the zero or 2 for the pointer, whatever the pointer
\* refers to; when skipping the question section returns, the offset is that
\* of qdcount such names from offset 12, each followed by 4 bytes.
C27_SkipArithmetic ==
    /\ bpc = "skipped" /\ skipped.kind = "ok" =>
          LET stop == start + LabelBytes(LiteralLabels(buffer, start))
          IN  /\ stop < Len(buffer)
              /\ buffer[stop + 1] = 0 \/ buffer[stop + 1] >= 192
              /\ skipped.offset = stop + (IF buffer[stop + 1] = 0 THEN 1 ELSE 2)
    /\ bpc = "questions" /\ skipped.kind = "ok" =>
          skipped.offset = QuestionsSkipped(buffer, 12, FieldAt(buffer, 4))

\* two questions: "example.com" written out (13 bytes) and a pointer to it
\* (2 bytes), each followed by 4 bytes
C27_Witness ==
    /\ bpc = "questions"
    /\ buffer = Datagrams["two_questions"]
    /\ FieldAt(buffer, 4) = 2
    /\ skipped = [kind |-> "ok", offset |-> 35]

\* the lengths of the runs of a name between its dots; a label that holds no
\* dot is one run, one that holds dots is several shorter ones
RunLengths(d) == {Len(Split(d)[k]) : k \in 1..Len(Split(d))}

\* C28 (label length): no name the decoder returns has a dot-free run longer
\* than 63 bytes, so none has a label longer than 63 bytes, whatever length
\* bytes the buffer holds.
C28_LabelLength ==
    NameParsed /\ parsed_name.kind = "ok" =>
        \A n \in RunLengths(parsed_name.name) : n <= 63

\* C29 (pointer target): reading a name that starts with a pointer goes on
\* at the offset (b0 mod 64) * 256 + b1 of the same buffer, an offset in
\* 0..16383: it ends as reading the name at that offset ends, with the same
\* name, and hands back the offset 2 bytes past the pointer.
C29_PointerTarget ==
    NameParsed /\ PointerAt(buffer, start) =>
        LET target == TargetOf(buffer, start)
            there == parse_domain_name(buffer, target)
        IN  /\ target \in 0..16383
            /\ parsed_name.kind = there.kind
            /\ parsed_name.kind = "ok" =>
                  /\ parsed_name.name = there.name
                  /\ parsed_name.offset = start + 2

\* the pointer c1 2c refers to offset 300 (1 * 256 + 44), where "a" is
\* written
C29_Witness ==
    /\ NameParsed
    /\ buffer = far_pointer
    /\ start = 0
    /\ TargetOf(buffer, start) = 300
    /\ parsed_name = [kind |-> "ok", name |-> <<97>>, offset |-> 2]

C39_SkipParseAgree ==
    bpc = "skipped" /\ parsed_name.kind = "ok" =>
        /\ skipped.kind = "ok"
        /\ skipped.offset = parsed_name.offset

\* "b" then a pointer (offset 5 of chained_names): the name is read through
\* two pointers to "b.a", and both methods hand back offset 9
C39_Witness ==
    /\ bpc = "skipped"
    /\ buffer = chained_names
    /\ start = 5
    /\ parsed_name.kind = "ok"
    /\ parsed_name.name = <<98, 46, 97>>
    /\ skipped = [kind |-> "ok", offset |-> 9]

(***************************************************************************)
(* Claims about two interleaved calls (SpecPair)                           *)
(***************************************************************************)
\* what is observed of a call: where it stands, its current server, the
\* servers it has visited and those it has sent a query to
AloneView(p, server, vis, qd) ==
    [pc |-> p, current_server |-> server, visited |-> vis, queried |-> qd]

ViewOf(call) ==
    AloneView(call.pc, call.current_server, call.visited, call.queried)

\* root_dns_ip of a call: the first server it visited
RootOf(call) ==
    IF call.visited = <<>> THEN call.current_server ELSE call.visited[1]

\* a call running alone, in view v, and where it gets without receiving
\* anything: out of the loop, failed on building its query, or waiting for
\* the reply to it
Onward(v, dom) ==
    {v} \cup
    IF v.pc # "Querying" THEN {}
    ELSE IF v.current_server = <<>>
    THEN {AloneView("Failed", v.current_server, v.visited, v.queried)}
    ELSE IF build_query(dom, 0).kind = "raise"
    THEN {AloneView("Failed", v.current_server,
                    Append(v.visited, v.current_server), v.queried)}
    ELSE {AloneView("Waiting", v.current_server,
                    Append(v.visited, v.current_server),
                    Append(v.queried, v.current_server))}

\* a call running alone, waiting in view v, once its exchange has ended
\* with r (a datagram, a timeout or an error)
Received(v, r) ==
    LET decide(p, server) == AloneView(p, server, v.visited, v.queried)
    IN  IF r \notin DatagramKeys THEN decide("Failed", v.current_server)
        ELSE IF Decoded[r].kind = "loop" THEN decide("Looping", v.current_server)
        ELSE IF QueryResult(Decoded[r]) = None THEN decide("Failed", v.current_server)
        ELSE IF display_response(Decoded[r]).kind = "raise"
        THEN decide("Crashed", v.current_server)
        ELSE IF Untraced(Decoded[r]).pc = "Querying"
        THEN decide("Querying", Untraced(Decoded[r]).current_server)
        ELSE decide(Untraced(Decoded[r]).pc, v.current_server)

RECURSIVE Alone(_, _, _)
\* the views a call for domain dom, started at server root and running
\* alone, can be in when its exchanges so far ended with reps, in this order
Alone(root, dom, reps) ==
    IF reps = <<>> THEN Onward(AloneView("Querying", root, <<>>, <<>>), dom)
    ELSE LET before == Alone(root, dom, SubSeq(reps, 1, Len(reps) - 1))
             r == reps[Len(reps)]
         IN  UNION {Onward(Received(v, r), dom) : v \in {w \in before : w.pc = "Waiting"}}
             \cup {AloneView("Failed", v.current_server,
                             Append(v.visited, v.current_server), v.queried) :
                     v \in {w \in before : /\ r = "ioerror"
                                           /\ w.pc = "Querying"
                                           /\ w.current_server # <<>>
                                           /\ build_query(dom, 0).kind = "ok"}}

\* C19 (independence of concurrent lookups): with two calls interleaved in
\* any order, each call stands where it would stand running alone with the
\* same replies: the same servers visited and queried, the same outcome or
\* next server.
C19_IndependentLookups ==
    /\ ViewOf(Locals) \in Alone(RootOf(Locals), domain, replies)
    /\ ViewOf(other) \in Alone(RootOf(other), other.domain, other.replies)

\* both calls ran two passes of the loop and ended differently, after
\* different referrals
C19_Witness ==
    /\ pc = "HaveAnswer"
    /\ other.pc = "Failed"
    /\ Len(queried) = 2
    /\ Len(other.queried) = 2
    /\ queried[2] # other.queried[2]
    /\ replies # other.replies

(***************************************************************************)
(* Claims about parse_response step by step (SpecSteps)                    *)
(***************************************************************************)
\* the step-by-step run ends as parse_response ends: the same dict returned,
\* or an exception on both sides
StepsAgree ==
    /\ spc = "returned" =>
          parse_response(buffer) =
              Parsed("ok", lists[1], lists[2], lists[3], sheader)
    /\ spc = "raised" => parse_response(buffer).kind = "raise"

\* parse_response has returned or raised
Stopped == spc \in {"returned", "raised"}

\* _parse_domain_name is running and has followed a compression pointer
FollowingPointers == spc = "name" /\ nameframe.jumped

\* C32 (decode loops): every call of parse_response returns, or raises, or
\* from some point on stays for ever inside _parse_domain_name having
\* followed a compression pointer; it never stays for ever in the question
\* loop, in _skip_domain_name or at the head of a record loop.
C32_OnlyPointersLoop == <>Stopped \/ <>[]FollowingPointers

\* the answer's name is a pointer to itself (offset 29): the name loop is
\* back at the pointer after following it, the record loop still has its one
\* record to read
C32_Witness ==
    /\ buffer = Datagrams["pointer_loop"]
    /\ FollowingPointers
    /\ soffset = 29
    /\ ssection = 1
    /\ sleft = 1
    /\ lists = <<<<>>, <<>>, <<>>>>

(***************************************************************************)
(* Claims about the FTP clients (SpecFtp)                                  *)
(***************************************************************************)
\* C34 (the reply read terminates): in FTPClient, once recv has returned
\* empty data (the server has closed the control connection) the loop of
\* receive_response is over: the method has returned and the client is
\* past the read.
C34_ReadReturns ==
    (variant = "FTPClient" /\ lastlen = 0) => fpc # "read"

\* C35 (reply pairing): in FTPClient every reply is read while the command
\* the server sent it for is the last one sent, and what the call that sent
\* a command returns is the reply to that command.
C35_ReplyPairing ==
    variant = "FTPClient" =>
        \A p \in consumed \cup returned : p[1] = p[2]

\* C36 (the session survives command errors): in every client no error of a
\* command ends the loop, and at the prompt no data socket of a command is
\* left open.
C36_SessionSurvives ==
    /\ fpc # "died"
    /\ fpc = "prompt" => data_socket # "open"

(***************************************************************************)
(* Claims about the CryptoServer (SpecCrypto)                              *)
(***************************************************************************)
\* the server's key and the hashes among what a session's client was sent
Secrets(sess) == {item \in sess.out : item.what \in {"key", "hash"}}

\* C37 (command order): a session in which a 'tunnel' or a 'post' arrived
\* before any 'connect' has ended, its control socket closed, and neither
\* the server's key nor a hash has been sent to its client.
C37_CommandOrder ==
    \A s \in Sessions :
        sessions[s].premature =>
            /\ sessions[s].st = "ended"
            /\ sessions[s].control = "closed"
            /\ Secrets(sessions[s]) = {}

\* the first connection sends a command that is passed over and then a
\* 'tunnel' or a 'post', without a 'connect', and is closed, while the second one, from the same address after it,
\* has connected and exchanged keys
C37_Witness ==
    /\ sessions[1].premature
    /\ sessions[1].requests = 2
    /\ sessions[1].st = "ended"
    /\ sessions[1].out = {}
    /\ sessions[2].st = "running"
    /\ sessions[2].client_id = sessions[1].client_id
    /\ Secrets(sessions[2]) = {[what |-> "key", key |-> 0]}
    /\ client_public_keys = [a \in {sessions[2].client_id} |-> 2]

\* C38 (key isolation): every hash sent to the client of a session is
\* encrypted with the key that session supplied in a 'tunnel' of its own.
C38_KeyIsolation ==
    \A s \in Sessions :
        \A item \in sessions[s].out :
            item.what = "hash" =>
                /\ sessions[s].supplied # 0
                /\ item.key = sessions[s].supplied

=============================================================================
